---- MODULE Spec2Model ----
(***************************************************************************)
(* HaasMachine (src/unnamed/part_000): the per-machine simulation engine,  *)
(* and the fleet of src/server.js that holds the machines.                 *)
(*                                                                         *)
(* Numbers.  The engine computes in floating point; the model computes in  *)
(* integers, each field in a fixed unit:                                   *)
(*   timeInPhase, machineOnHours, spindleHours      seconds                *)
(*   cycleTimeTarget                                milliseconds           *)
(*   spindleSpeed, targetSpindleSpeed               rpm                    *)
(*   feedRate, targetFeed, rapidRate, cutSpeed      1 (ipm)                *)
(*   spindleLoad, servoLoad, oilPressure            0.01                   *)
(*   spindleOrientation                             1/60 degree            *)
(*   axisPositions                                  0.01                   *)
(*   servoFollowingError                            0.000001               *)
(*   servoTemp, bendAngle                           0.01                   *)
(*   batteryVoltage, temperature, vibration,                               *)
(*   resonatorTemp                                  0.0001                 *)
(*   spindleTemp                                    0.00001                *)
(*   currentAmps, oilLevel, tonnage                 0.001                  *)
(*   toolWear                                       0.00000001             *)
(*   tool currentLife, coolant level                0.00001                *)
(*   ramPosition                                    1 (percent)            *)
(* A quotient is rounded down.  null is the string "null".                 *)
(*                                                                         *)
(* Math.random() is a draw u in 0..999 standing for u/1000 in [0, 1).      *)
(* One update call reads its draws from a record r:                        *)
(*   r.gate   the draw of the automatic clear (line 164) or of the cycle   *)
(*            start (lines 234, 415, 456): one call reaches one of them    *)
(*   r.mag    every draw of the call that sets a magnitude                 *)
(*   r.feed   the draw of targetFeed (line 245), in the records that have  *)
(*            the field: it is independent of the draws of the cycle time  *)
(*            and the target speed; without the field it is r.mag          *)
(*   r.alarms the draws of _checkAlarms in the order they are made: a      *)
(*            condition draws only when its threshold is met (&&), the     *)
(*            k-th draw made succeeds iff r.alarms[k]; draws past the      *)
(*            end of r.alarms fail                                         *)
(***************************************************************************)
EXTENDS Integers, Sequences, FiniteSets, TLC

VARIABLES machines, last, injected, budget, clients, advanced

vars == <<machines, last, injected, budget, clients, advanced>>

(* ---------------------------------------------------------------------- *)
(* Bounds of the model                                                     *)
(* ---------------------------------------------------------------------- *)

\* update calls of one behaviour (Spec)
MaxTicks == 4
\* setPower, injectAlarm and clearAlarm calls of one behaviour (Spec)
MaxCmds == 2
\* update calls of one behaviour that set an alarm (Spec, SpecRun, SpecHist)
MaxAutoAlarms == 1
\* update calls of one behaviour (SpecRun)
MaxRunTicks == 8
\* injectAlarm calls, and other operations, of one behaviour (SpecHist)
MaxHistInjects == 22
MaxHistExtras == 2
\* update calls, and commands or alarm-setting updates, of one behaviour
\* (SpecLaser)
MaxLaserTicks == 152
MaxLaserExtras == 1
\* draws of one _checkAlarms call that the draw record decides
MaxAlarmDraws == 2
\* update calls of the forced-load scenario (SpecForce)
MaxForcedTicks == 100
\* update calls of the forced-vibration scenario (SpecVib)
MaxVibTicks == 40
\* update calls of one behaviour (SpecCycle)
MaxCycleTicks == 47
\* update calls that do not clear an alarm, and setPower and injectAlarm
\* calls, of one behaviour (SpecClear)
MaxClearTicks == 2
MaxClearCmds == 2
\* update calls and commands of one behaviour (SpecResume)
MaxResumeTicks == 4
MaxResumeCmds == 2
\* update calls that start or run a cycle, and update calls that leave the
\* new machine idle, of one behaviour (SpecHeat)
MaxHeatTicks == 650
MaxHeatIdles == 1
\* update calls and commands of one behaviour (SpecCount)
MaxCountTicks == 9
MaxCountCmds == 2
\* ticks and HTTP requests of one behaviour (SpecApi)
MaxApiTicks == 2
MaxApiRequests == 2
\* ticks and HTTP requests of one behaviour (SpecPlant)
MaxPlantTicks == 2
MaxPlantRequests == 3
\* ticks, HTTP requests and WebSocket events of one behaviour (SpecWs)
MaxWsTicks == 2
MaxWsRequests == 1
MaxClientEvents == 3
\* the long elapsed time of the "dt however large" cases, seconds
LongDt == 9000

\* SIM_UPDATE_PERIOD_MS / 1000.0, the tick driver's dt
SimDt == 2

Min(a, b) == IF a < b THEN a ELSE b
Max(a, b) == IF a > b THEN a ELSE b

\* Math.random() < p, p in thousandths
Lt(u, p) == u < p

Axes == {"X", "Y", "Z"}

(* ---------------------------------------------------------------------- *)
(* Fleet (server.js) and constructor                                       *)
(* ---------------------------------------------------------------------- *)

\* the specs argument of four of the fleet's machines; a field a machine
\* does not pass is the constructor's default (|| ...)
FleetSpecs ==
  [ haas_vf2 |-> [type |-> "CNC_MILL",
                  axisLimits |-> [X |-> <<0, 762>>, Y |-> <<0, 406>>, Z |-> <<0, 508>>],
                  maxRPM |-> 8100, rapidTraverse |-> 1000, toolCapacity |-> 24,
                  maxTonnage |-> 0, maxLaserPower |-> 0],
    cnc_lathe |-> [type |-> "LATHE",
                  axisLimits |-> [X |-> <<0, 300>>, Y |-> <<0, 200>>, Z |-> <<0, 500>>],
                  maxRPM |-> 4000, rapidTraverse |-> 800, toolCapacity |-> 12,
                  maxTonnage |-> 0, maxLaserPower |-> 0],
    durma_press |-> [type |-> "PRESS_BRAKE",
                  axisLimits |-> [X |-> <<0, 100>>, Y |-> <<0, 2000>>, Z |-> <<0, 300>>],
                  maxRPM |-> 8100, rapidTraverse |-> 1000, toolCapacity |-> 24,
                  maxTonnage |-> 200, maxLaserPower |-> 0],
    fiber_laser |-> [type |-> "LASER",
                  axisLimits |-> [X |-> <<0, 1500>>, Y |-> <<0, 3000>>, Z |-> <<0, 100>>],
                  maxRPM |-> 8100, rapidTraverse |-> 1000, toolCapacity |-> 24,
                  maxTonnage |-> 0, maxLaserPower |-> 6000] ]

FleetIds == DOMAIN FleetSpecs

IsCNC(type) == type \in {"CNC_MILL", "LATHE"}

\* _initializeTools: count tools numbered 1..count; u is the draw of
\* currentLife (100 - u * 80).  The display attributes (type, diameter,
\* length, flutes, coating, description) are written once and never read.
_initializeTools(type, toolCapacity, u) ==
  LET count == IF type = "CNC_MILL" THEN toolCapacity ELSE 12
  IN  [i \in 1..count |->
         [number |-> i, currentLife |-> 10000000 - u * 8000, maxLife |-> 100,
          inUse |-> FALSE, totalCuts |-> 0]]

\* constructor(id, name, model, type, specs); u is the draw of the tools'
\* currentLife, ctt the draw of cycleTimeTarget.  A field that the
\* constructor leaves undefined for the type is 0 (or <<>>) and never read.
HaasMachine(id, sp, u, ctt) ==
  [ id |-> id, type |-> sp.type,
    specs |-> [axisLimits |-> sp.axisLimits, maxRPM |-> sp.maxRPM,
               rapidTraverse |-> sp.rapidTraverse, toolCapacity |-> sp.toolCapacity],
    power |-> TRUE, execution |-> "IDLE", cyclePhase |-> "IDLE",
    timeInPhase |-> 0, cycleTimeTarget |-> 20000 + ctt * 25,
    alarm |-> "null", alarmCode |-> "null", alarmHistory |-> <<>>, warnings |-> <<>>,
    spindleSpeed |-> 0, targetSpindleSpeed |-> 0, spindleLoad |-> 0,
    spindleTemp |-> 2500000, spindleHours |-> 0, spindleOrientation |-> 0,
    feedRate |-> 0, targetFeed |-> 0, rapidRate |-> 0,
    axisPositions |->
      [X |-> ((sp.axisLimits.X[1] + sp.axisLimits.X[2]) * 100) \div 2,
       Y |-> ((sp.axisLimits.Y[1] + sp.axisLimits.Y[2]) * 100) \div 2,
       Z |-> sp.axisLimits.Z[2] * 100],
    servoLoad |-> [a \in Axes |-> 0],
    servoFollowingError |-> [a \in Axes |-> 0],
    servoTemp |-> [a \in Axes |-> 2500],
    partCount |-> 0, totalCycles |-> 0, machineOnHours |-> 0, productionRate |-> 0,
    batteryVoltage |-> 36000, temperature |-> 720000, vibration |-> 0,
    currentAmps |-> 7000, oilPressure |-> 5000, oilLevel |-> 100000,
    currentTool |-> IF IsCNC(sp.type) THEN 1 ELSE 0,
    tools |-> IF IsCNC(sp.type) THEN _initializeTools(sp.type, sp.toolCapacity, u) ELSE <<>>,
    toolChangeCount |-> 0, toolWear |-> 0,
    coolant |-> IF IsCNC(sp.type)
                THEN [level |-> 10000000, pressure |-> 5000, temperature |-> 7200, flow |-> 0]
                ELSE [level |-> 0, pressure |-> 0, temperature |-> 0, flow |-> 0],
    tonnage |-> 0, maxTonnage |-> sp.maxTonnage, ramPosition |-> 0,
    backGauge |-> 0, bendAngle |-> 0,
    laserPower |-> 0, maxLaserPower |-> sp.maxLaserPower,
    gasPressure |-> IF sp.type = "LASER" THEN 240 ELSE 0,
    resonatorTemp |-> IF sp.type = "LASER" THEN 260000 ELSE 0, cutSpeed |-> 0,
    programRunning |-> "null",
    \* the number of _setAlarm calls so far: the order that the entries'
    \* timestamps record
    alarmsSet |-> 0 ]

\* this.coolant / this.tools && this.currentTool: set for mills and lathes
HasCoolant(s) == IsCNC(s.type)
HasTool(s) == IsCNC(s.type) /\ s.currentTool >= 1 /\ s.currentTool <= Len(s.tools)

(* ---------------------------------------------------------------------- *)
(* Alarms                                                                  *)
(* ---------------------------------------------------------------------- *)

Last(q) == q[Len(q)]

\* alarmHistory.slice(-n)
SliceLast(q, n) == IF Len(q) > n THEN SubSeq(q, Len(q) - n + 1, Len(q)) ELSE q

\* _setAlarm that also forces the alarm mode at once
_setAlarm_ForcesMode(s, code, message) ==
  LET entry == [code |-> code, message |-> message, seq |-> s.alarmsSet + 1,
                cyclePhase |-> s.cyclePhase, spindleLoad |-> s.spindleLoad,
                cleared |-> FALSE]
      pushed == Append(s.alarmHistory, entry)
  IN  [s EXCEPT !.alarm = message, !.alarmCode = code,
                !.execution = "ALARM", !.cyclePhase = "IDLE",
                !.alarmHistory = IF Len(pushed) > 20 THEN SliceLast(pushed, 20) ELSE pushed,
                !.alarmsSet = @ + 1]

\* _setAlarm with slice(0, 20) in place of slice(-20): the newest entry is
\* the one dropped
_setAlarm_KeepsFirst20(s, code, message) ==
  LET entry == [code |-> code, message |-> message, seq |-> s.alarmsSet + 1,
                cyclePhase |-> s.cyclePhase, spindleLoad |-> s.spindleLoad,
                cleared |-> FALSE]
      pushed == Append(s.alarmHistory, entry)
  IN  [s EXCEPT !.alarm = message, !.alarmCode = code,
                !.alarmHistory = IF Len(pushed) > 20 THEN SubSeq(pushed, 1, 20) ELSE pushed,
                !.alarmsSet = @ + 1]

_setAlarm(s, code, message) ==
  LET entry == [code |-> code, message |-> message, seq |-> s.alarmsSet + 1,
                cyclePhase |-> s.cyclePhase, spindleLoad |-> s.spindleLoad,
                cleared |-> FALSE]
      pushed == Append(s.alarmHistory, entry)
  IN  [s EXCEPT !.alarm = message, !.alarmCode = code,
                !.alarmHistory = IF Len(pushed) > 20 THEN SliceLast(pushed, 20) ELSE pushed,
                !.alarmsSet = @ + 1]

\* _clearAlarm that removes the newest entry in place of marking it
_clearAlarm_PopsNewest(s) ==
  LET h == s.alarmHistory
      popped == IF Len(h) > 0 THEN SubSeq(h, 1, Len(h) - 1) ELSE h
  IN  [s EXCEPT !.alarmHistory = popped, !.alarm = "null", !.alarmCode = "null",
                !.execution = "IDLE"]

\* _clearAlarm that forgets the history: the newest entry stays uncleared
_clearAlarm_KeepsEntry(s) ==
  [s EXCEPT !.alarm = "null", !.alarmCode = "null", !.execution = "IDLE"]

_clearAlarm(s) ==
  LET h == s.alarmHistory
      marked == IF Len(h) > 0 THEN [h EXCEPT ![Len(h)].cleared = TRUE] ELSE h
  IN  [s EXCEPT !.alarmHistory = marked, !.alarm = "null", !.alarmCode = "null",
                !.execution = "IDLE"]

(* ---------------------------------------------------------------------- *)
(* Manual controls                                                         *)
(* ---------------------------------------------------------------------- *)

\* setPower whose power-off stops the spindle and the feed as well
setPower_OffStopsSpindle(s, state) ==
  IF ~state
  THEN [s EXCEPT !.power = state, !.execution = "STOPPED", !.cyclePhase = "IDLE",
                 !.spindleSpeed = 0, !.feedRate = 0]
  ELSE [s EXCEPT !.power = state]

setPower(s, state) ==
  IF ~state
  THEN [s EXCEPT !.power = state, !.execution = "STOPPED", !.cyclePhase = "IDLE"]
  ELSE [s EXCEPT !.power = state]

\* injectAlarm that passes its arguments in the wrong order
injectAlarm_SwapsArguments(s, code, message) == _setAlarm(s, message, code)

injectAlarm(s, code, message) == _setAlarm(s, code, message)

\* clearAlarm that also puts a fresh tool in the spindle
clearAlarm_RenewsTool(s) ==
  IF HasTool(s)
  THEN [_clearAlarm(s) EXCEPT !.tools[s.currentTool].currentLife = 10000000]
  ELSE _clearAlarm(s)

clearAlarm(s) == _clearAlarm(s)

(* ---------------------------------------------------------------------- *)
(* Mill / lathe cycle                                                      *)
(* ---------------------------------------------------------------------- *)

\* the draw of line 245
FeedDraw(r) == IF "feed" \in DOMAIN r THEN r.feed ELSE r.mag

_startNewCycle(s, r) ==
  [s EXCEPT !.cyclePhase = "SPINDLE_RAMP", !.execution = "RUNNING", !.timeInPhase = 0,
            !.cycleTimeTarget = 20000 + r.mag * 25,
            !.targetSpindleSpeed = 3000 + (r.mag * (s.specs.maxRPM - 3000)) \div 1000,
            !.targetFeed = 300 + (FeedDraw(r) * 1500) \div 1000,
            !.programRunning = IF @ = "null" THEN "O" ELSE @]

_phaseIdle(s, dt, r) ==
  LET s1 == [s EXCEPT !.execution = "IDLE",
                      !.spindleSpeed = Max(0, @ - 500 * dt),
                      !.feedRate = Max(0, @ - 500 * dt),
                      !.spindleLoad = Max(0, @ - 500 * dt),
                      !.coolant.level = IF HasCoolant(s) THEN Min(10000000, @ + 10000) ELSE @,
                      !.coolant.flow = 0]
  IN  IF Lt(r.gate, 50) THEN _startNewCycle(s1, r) ELSE s1

_phaseSpindleRamp(s, dt, r) ==
  LET ramp == 350 * dt
      up == s.spindleSpeed + ramp
      s1 == IF s.spindleSpeed < s.targetSpindleSpeed
            THEN IF up >= s.targetSpindleSpeed
                 THEN [s EXCEPT !.execution = "RUNNING",
                                !.spindleSpeed = s.targetSpindleSpeed,
                                !.cyclePhase = "RAPID", !.timeInPhase = 0]
                 ELSE [s EXCEPT !.execution = "RUNNING", !.spindleSpeed = up]
            ELSE [s EXCEPT !.execution = "RUNNING"]
  IN  [s1 EXCEPT !.spindleLoad = Min(2000, (s1.spindleSpeed * 1500) \div s1.targetSpindleSpeed),
                 !.spindleOrientation = (@ + s1.spindleSpeed * dt) % 21600]

_phaseRapid(s, dt, r) ==
  LET limits == s.specs.axisLimits
      s1 == [s EXCEPT !.execution = "RUNNING",
                      !.axisPositions.X = limits.X[1] * 100
                                          + (r.mag * (limits.X[2] - limits.X[1])) \div 10,
                      !.axisPositions.Y = limits.Y[1] * 100
                                          + (r.mag * (limits.Y[2] - limits.Y[1])) \div 10,
                      !.axisPositions.Z = limits.Z[2] * 100,
                      !.rapidRate = s.specs.rapidTraverse,
                      !.feedRate = 0,
                      !.spindleLoad = 500 + (r.mag * 500) \div 1000]
  IN  IF s1.timeInPhase >= 3
      THEN [s1 EXCEPT !.cyclePhase = "CUTTING", !.timeInPhase = 0]
      ELSE s1

_phaseCutting(s, dt, r) ==
  LET ramp == 200 * dt
      feed == IF s.feedRate < s.targetFeed
              THEN Min(s.feedRate + ramp, s.targetFeed)
              ELSE s.feedRate
      limits == s.specs.axisLimits
      z0 == s.axisPositions.Z - (100 * dt * feed) \div Max(s.targetFeed, 1)
      z == IF z0 < (limits.Z[1] + 5) * 100 THEN (limits.Z[1] + 5) * 100 ELSE z0
      baseLoad == (feed * 3500) \div 1800
      wearLoad == s.toolWear \div 20000
      vibLoad == (s.vibration * 8) \div 100
      noise == (r.mag * 450) \div 1000 - 200
      load == Max(0, Min(10000, baseLoad + wearLoad + vibLoad + noise))
      wear == Min(100000000, s.toolWear + load * 4)
      s1 == [s EXCEPT !.execution = "RUNNING", !.feedRate = feed,
                      !.axisPositions.Z = z, !.spindleLoad = load, !.toolWear = wear,
                      !.vibration = (wear * 3) \div 10000 + r.mag * 4,
                      !.spindleHours = IF s.spindleSpeed > 300 THEN @ + dt ELSE @]
      s2 == IF HasTool(s1)
            THEN [s1 EXCEPT !.tools[s1.currentTool].currentLife = Max(0, @ - r.mag * 2),
                            !.tools[s1.currentTool].inUse = TRUE,
                            !.tools[s1.currentTool].totalCuts = @ + 1]
            ELSE s1
      s3 == IF HasCoolant(s2)
            THEN [s2 EXCEPT !.coolant.level = Max(0, @ - r.mag * 8),
                            !.coolant.pressure = 4500 + (r.mag * 1500) \div 1000,
                            !.coolant.temperature = 7200 + (r.mag * 1500) \div 1000,
                            !.coolant.flow = 500 + (r.mag * 300) \div 1000]
            ELSE s2
      s4 == [s3 EXCEPT !.servoLoad = [X |-> 2000 + r.mag * 3, Y |-> 2000 + r.mag * 3,
                                      Z |-> 3000 + load \div 2],
                       !.servoFollowingError = [X |-> r.mag * 2, Y |-> r.mag * 2,
                                                Z |-> r.mag * 3]]
  IN  IF s4.timeInPhase * 5000 >= s4.cycleTimeTarget * 3
      THEN [s4 EXCEPT !.cyclePhase = "RETRACT", !.timeInPhase = 0]
      ELSE s4

_phaseRetract(s, dt, r) ==
  LET limits == s.specs.axisLimits
      z == s.axisPositions.Z + 400 * dt
      s1 == IF z >= (limits.Z[2] - 10) * 100
            THEN [s EXCEPT !.execution = "RUNNING",
                           !.axisPositions.Z = (limits.Z[2] - 10) * 100,
                           !.cyclePhase = "DWELL", !.timeInPhase = 0]
            ELSE [s EXCEPT !.execution = "RUNNING", !.axisPositions.Z = z]
  IN  [s1 EXCEPT !.spindleLoad = Max(500, @ - 1000 * dt),
                 !.feedRate = Max(0, @ - 300 * dt)]

_phaseDwell(s, dt, r) ==
  LET s1 == [s EXCEPT !.execution = "RUNNING", !.feedRate = 0,
                      !.spindleLoad = Max(0, @ - 500 * dt)]
  IN  IF s1.timeInPhase >= 2
      THEN [s1 EXCEPT !.cyclePhase = "FINISH", !.timeInPhase = 0]
      ELSE s1

\* _phaseFinish that counts the part but not the cycle
_phaseFinish_NoTotalCycles(s, dt, r) ==
  LET s1 == [s EXCEPT !.execution = "RUNNING", !.partCount = @ + 1,
                      !.spindleLoad = (@ * 7) \div 10, !.feedRate = 0]
      s2 == IF HasTool(s1) THEN [s1 EXCEPT !.tools[s1.currentTool].inUse = FALSE] ELSE s1
  IN  [s2 EXCEPT !.cyclePhase = "IDLE", !.timeInPhase = 0]

_phaseFinish(s, dt, r) ==
  LET s1 == [s EXCEPT !.execution = "RUNNING", !.partCount = @ + 1, !.totalCycles = @ + 1,
                      !.spindleLoad = (@ * 7) \div 10, !.feedRate = 0]
      s2 == IF HasTool(s1) THEN [s1 EXCEPT !.tools[s1.currentTool].inUse = FALSE] ELSE s1
      s3 == IF s2.machineOnHours > 0
            THEN [s2 EXCEPT !.productionRate =
                    (2 * 3600 * s2.partCount + s2.machineOnHours) \div (2 * s2.machineOnHours)]
            ELSE s2
  IN  [s3 EXCEPT !.cyclePhase = "IDLE", !.timeInPhase = 0]

_updateCNCCycle(s, dt, r) ==
  CASE s.cyclePhase = "IDLE" -> _phaseIdle(s, dt, r)
    [] s.cyclePhase = "SPINDLE_RAMP" -> _phaseSpindleRamp(s, dt, r)
    [] s.cyclePhase = "RAPID" -> _phaseRapid(s, dt, r)
    [] s.cyclePhase = "CUTTING" -> _phaseCutting(s, dt, r)
    [] s.cyclePhase = "RETRACT" -> _phaseRetract(s, dt, r)
    [] s.cyclePhase = "DWELL" -> _phaseDwell(s, dt, r)
    [] s.cyclePhase = "FINISH" -> _phaseFinish(s, dt, r)
    [] OTHER -> s

(* ---------------------------------------------------------------------- *)
(* Press brake and laser cycles                                            *)
(* ---------------------------------------------------------------------- *)

\* _updatePressCycle that ends the cycle without raising the ram
_updatePressCycle_KeepsRam(s, dt, r) ==
  LET s1 == IF s.cyclePhase = "IDLE" /\ Lt(r.gate, 50)
            THEN [s EXCEPT !.cyclePhase = "RUNNING", !.execution = "RUNNING",
                           !.timeInPhase = 0, !.bendAngle = 4500 + r.mag * 9]
            ELSE s
  IN  IF s1.cyclePhase = "RUNNING"
      THEN LET ram == Min(100, s1.ramPosition + 20 * dt)
               ton == ram * s1.maxTonnage * 8
               s2 == [s1 EXCEPT !.execution = "RUNNING", !.ramPosition = ram,
                                !.tonnage = ton,
                                !.spindleLoad = (ton * 10) \div s1.maxTonnage,
                                !.servoLoad.Y = (ton * 8) \div s1.maxTonnage]
           IN  IF s2.timeInPhase >= 5
               THEN [s2 EXCEPT !.partCount = @ + 1, !.totalCycles = @ + 1,
                               !.tonnage = 0, !.cyclePhase = "IDLE",
                               !.execution = "IDLE", !.timeInPhase = 0]
               ELSE s2
      ELSE [s1 EXCEPT !.execution = "IDLE", !.spindleLoad = 0, !.tonnage = 0]

\* _updatePressCycle without the factor 0.8: the ram at its stop gives the
\* full rated tonnage
_updatePressCycle_FullTonnage(s, dt, r) ==
  LET s1 == IF s.cyclePhase = "IDLE" /\ Lt(r.gate, 50)
            THEN [s EXCEPT !.cyclePhase = "RUNNING", !.execution = "RUNNING",
                           !.timeInPhase = 0, !.bendAngle = 4500 + r.mag * 9]
            ELSE s
  IN  IF s1.cyclePhase = "RUNNING"
      THEN LET ram == Min(100, s1.ramPosition + 20 * dt)
               ton == ram * s1.maxTonnage * 10
               s2 == [s1 EXCEPT !.execution = "RUNNING", !.ramPosition = ram,
                                !.tonnage = ton,
                                !.spindleLoad = (ton * 10) \div s1.maxTonnage,
                                !.servoLoad.Y = (ton * 8) \div s1.maxTonnage]
           IN  IF s2.timeInPhase >= 5
               THEN [s2 EXCEPT !.partCount = @ + 1, !.totalCycles = @ + 1,
                               !.ramPosition = 0, !.tonnage = 0, !.cyclePhase = "IDLE",
                               !.execution = "IDLE", !.timeInPhase = 0]
               ELSE s2
      ELSE [s1 EXCEPT !.execution = "IDLE", !.spindleLoad = 0, !.tonnage = 0]

_updatePressCycle(s, dt, r) ==
  LET s1 == IF s.cyclePhase = "IDLE" /\ Lt(r.gate, 50)
            THEN [s EXCEPT !.cyclePhase = "RUNNING", !.execution = "RUNNING",
                           !.timeInPhase = 0, !.bendAngle = 4500 + r.mag * 9]
            ELSE s
  IN  IF s1.cyclePhase = "RUNNING"
      THEN LET ram == Min(100, s1.ramPosition + 20 * dt)
               ton == ram * s1.maxTonnage * 8
               s2 == [s1 EXCEPT !.execution = "RUNNING", !.ramPosition = ram,
                                !.tonnage = ton,
                                !.spindleLoad = (ton * 10) \div s1.maxTonnage,
                                !.servoLoad.Y = (ton * 8) \div s1.maxTonnage]
           IN  IF s2.timeInPhase >= 5
               THEN [s2 EXCEPT !.partCount = @ + 1, !.totalCycles = @ + 1,
                               !.ramPosition = 0, !.tonnage = 0, !.cyclePhase = "IDLE",
                               !.execution = "IDLE", !.timeInPhase = 0]
               ELSE s2
      ELSE [s1 EXCEPT !.execution = "IDLE", !.spindleLoad = 0, !.tonnage = 0]

_updateLaserCycle(s, dt, r) ==
  LET s1 == IF s.cyclePhase = "IDLE" /\ Lt(r.gate, 70)
            THEN [s EXCEPT !.cyclePhase = "RUNNING", !.execution = "RUNNING",
                           !.timeInPhase = 0,
                           !.laserPower = 2000 + (r.mag * (s.maxLaserPower - 2000)) \div 1000,
                           !.targetFeed = 800 + (r.mag * 2200) \div 1000]
            ELSE s
  IN  IF s1.cyclePhase = "RUNNING"
      THEN LET cut == IF s1.cutSpeed < s1.targetFeed
                      THEN Min(s1.cutSpeed + 300 * dt, s1.targetFeed)
                      ELSE s1.cutSpeed
               s2 == [s1 EXCEPT !.execution = "RUNNING",
                                !.spindleLoad = (s1.laserPower * 10000) \div s1.maxLaserPower,
                                !.cutSpeed = cut, !.feedRate = cut,
                                !.axisPositions.X = @ + r.mag - 500,
                                !.axisPositions.Y = @ + r.mag - 500,
                                !.resonatorTemp = @ + (s1.laserPower * 4000) \div s1.maxLaserPower]
           IN  IF s2.timeInPhase >= 8
               THEN [s2 EXCEPT !.partCount = @ + 1, !.totalCycles = @ + 1,
                               !.cyclePhase = "IDLE", !.execution = "IDLE",
                               !.timeInPhase = 0, !.cutSpeed = 0, !.feedRate = 0]
               ELSE s2
      ELSE [s1 EXCEPT !.execution = "IDLE", !.spindleLoad = 0, !.cutSpeed = 0,
                      !.feedRate = 0, !.resonatorTemp = Max(260000, @ - 500)]

(* ---------------------------------------------------------------------- *)
(* Health sensors, alarm evaluation, warnings                              *)
(* ---------------------------------------------------------------------- *)

\* _updateHealthSensors without the cap of the ambient temperature
_updateHealthSensors_NoTemperatureCap(s, dt, r) ==
  LET running == s.execution = "RUNNING"
      drained == s.batteryVoltage - dt
  IN  [s EXCEPT
        !.temperature = IF running THEN @ + (s.spindleLoad * 3) \div 10
                        ELSE Max(720000, @ - 2000),
        !.spindleTemp = IF running THEN Min(9500000, @ + (s.spindleLoad * 15) \div 10)
                        ELSE Max(2500000, @ - 3000),
        !.currentAmps = IF running THEN 7000 + (s.spindleLoad * 8) \div 10
                        ELSE Max(7000, @ - 500),
        !.batteryVoltage = IF drained < 28000 THEN 28000 ELSE drained,
        !.oilPressure = 4500 + r.mag,
        !.oilLevel = Max(20000, @ - 1),
        !.servoTemp = IF running THEN [a \in Axes |-> Min(6500, s.servoTemp[a] + 10)]
                      ELSE [a \in Axes |-> Max(2500, s.servoTemp[a] - 5)]]

\* _updateHealthSensors without the floor of the battery voltage
_updateHealthSensors_NoBatteryFloor(s, dt, r) ==
  LET running == s.execution = "RUNNING"
  IN  [s EXCEPT
        !.temperature = IF running THEN Min(1200000, @ + (s.spindleLoad * 3) \div 10)
                        ELSE Max(720000, @ - 2000),
        !.spindleTemp = IF running THEN Min(9500000, @ + (s.spindleLoad * 15) \div 10)
                        ELSE Max(2500000, @ - 3000),
        !.currentAmps = IF running THEN 7000 + (s.spindleLoad * 8) \div 10
                        ELSE Max(7000, @ - 500),
        !.batteryVoltage = @ - dt,
        !.oilPressure = 4500 + r.mag,
        !.oilLevel = Max(20000, @ - 1),
        !.servoTemp = IF running THEN [a \in Axes |-> Min(6500, s.servoTemp[a] + 10)]
                      ELSE [a \in Axes |-> Max(2500, s.servoTemp[a] - 5)]]

_updateHealthSensors(s, dt, r) ==
  LET running == s.execution = "RUNNING"
      drained == s.batteryVoltage - dt
  IN  [s EXCEPT
        !.temperature = IF running THEN Min(1200000, @ + (s.spindleLoad * 3) \div 10)
                        ELSE Max(720000, @ - 2000),
        !.spindleTemp = IF running THEN Min(9500000, @ + (s.spindleLoad * 15) \div 10)
                        ELSE Max(2500000, @ - 3000),
        !.currentAmps = IF running THEN 7000 + (s.spindleLoad * 8) \div 10
                        ELSE Max(7000, @ - 500),
        !.batteryVoltage = IF drained < 28000 THEN 28000 ELSE drained,
        !.oilPressure = 4500 + r.mag,
        !.oilLevel = Max(20000, @ - 1),
        !.servoTemp = IF running THEN [a \in Axes |-> Min(6500, s.servoTemp[a] + 10)]
                      ELSE [a \in Axes |-> Max(2500, s.servoTemp[a] - 5)]]

\* the k-th draw that one _checkAlarms call makes
AlarmDraw(r, k) == k <= Len(r.alarms) /\ r.alarms[k]

\* how many of the conditions met[1..i-1] are met: the draws made before
\* condition i is evaluated, when every earlier draw failed
RECURSIVE MetBefore(_, _)
MetBefore(met, i) ==
  IF i <= 1 THEN 0
  ELSE MetBefore(met, i - 1) + (IF met[i - 1] THEN 1 ELSE 0)

\* the mill / lathe chain of else-if conditions, in the order of the code
CNCAlarmMet(s) ==
  << s.servoFollowingError.X > 5000,
     s.servoFollowingError.Y > 5000,
     s.servoFollowingError.Z > 5000,
     s.batteryVoltage < 30000,
     HasCoolant(s) /\ s.coolant.level < 1000000,
     s.spindleLoad > 9500,
     s.spindleTemp > 8500000,
     HasTool(s) /\ s.tools[s.currentTool].currentLife < 500000,
     s.vibration > 50000 >>

_checkAlarms(s, r) ==
  IF IsCNC(s.type)
  THEN LET met == CNCAlarmMet(s)
           hit(i) == met[i] /\ AlarmDraw(r, MetBefore(met, i) + 1)
       IN  IF hit(1) THEN _setAlarm(s, "103", "X AXIS FOLLOWING ERROR")
           ELSE IF hit(2) THEN _setAlarm(s, "104", "Y AXIS FOLLOWING ERROR")
           ELSE IF hit(3) THEN _setAlarm(s, "105", "Z AXIS FOLLOWING ERROR")
           ELSE IF hit(4) THEN _setAlarm(s, "9100", "LOW BATTERY")
           ELSE IF hit(5) THEN _setAlarm(s, "115", "COOLANT PUMP FAULT")
           ELSE IF hit(6) THEN _setAlarm(s, "null", "SPINDLE_OVERLOAD")
           ELSE IF hit(7) THEN _setAlarm(s, "200", "SPINDLE OVER TEMP")
           \* else if (this.tools && this.currentTool) { if (...) }: the branch
           \* is taken whenever the machine has tools, and ends the chain
           ELSE IF IsCNC(s.type) /\ s.currentTool # 0
                THEN IF hit(8) THEN _setAlarm(s, "null", "TOOL_LIFE_EXPIRED") ELSE s
           ELSE IF hit(9) THEN _setAlarm(s, "null", "HIGH_VIBRATION")
           ELSE s
  ELSE IF s.type = "PRESS_BRAKE"
  THEN IF s.tonnage > s.maxTonnage * 900 /\ AlarmDraw(r, 1)
       THEN _setAlarm(s, "null", "OVER_TONNAGE")
       ELSE s
  ELSE IF s.type = "LASER"
  THEN LET c1 == s.spindleLoad > 9500
           s1 == IF c1 /\ AlarmDraw(r, 1) THEN _setAlarm(s, "null", "LASER_POWER_FAULT") ELSE s
           c2 == s1.resonatorTemp > 850000
       IN  IF c2 /\ AlarmDraw(r, (IF c1 THEN 1 ELSE 0) + 1)
           THEN _setAlarm(s1, "null", "RESONATOR_OVERHEAT")
           ELSE s1
  ELSE s

\* the warnings pushed, in order: <<type, severity>>
_updateWarnings(s) ==
  LET w1 == IF s.batteryVoltage < 32000 THEN << <<"BATTERY_LOW", "warning">> >> ELSE <<>>
      w2 == IF HasCoolant(s) /\ s.coolant.level < 2000000
            THEN << <<"COOLANT_LOW", "warning">> >> ELSE <<>>
      w3 == IF HasTool(s) /\ s.tools[s.currentTool].currentLife < 1500000
            THEN << <<"TOOL_WEAR", "warning">> >> ELSE <<>>
      w4 == IF s.spindleTemp > 7500000 THEN << <<"HIGH_TEMP", "warning">> >> ELSE <<>>
      w5 == IF s.spindleLoad > 8500 THEN << <<"HIGH_LOAD", "caution">> >> ELSE <<>>
  IN  [s EXCEPT !.warnings = w1 \o w2 \o w3 \o w4 \o w5]

(* ---------------------------------------------------------------------- *)
(* Main update loop                                                        *)
(* ---------------------------------------------------------------------- *)

\* the alarm branch that zeroes the spindle load, as the power-off branch does
UpdateInAlarm_ZeroesLoad(s, dt, r) ==
  LET s1 == [s EXCEPT !.execution = "ALARM", !.cyclePhase = "IDLE",
                      !.spindleSpeed = Max(0, @ - 500 * dt), !.spindleLoad = 0,
                      !.feedRate = 0]
  IN  IF Lt(r.gate, 20) THEN _clearAlarm(s1) ELSE s1

\* the alarm branch without the reset of the cycle phase
UpdateInAlarm_KeepsPhase(s, dt, r) ==
  LET s1 == [s EXCEPT !.execution = "ALARM",
                      !.spindleSpeed = Max(0, @ - 500 * dt), !.feedRate = 0]
  IN  IF Lt(r.gate, 20) THEN _clearAlarm(s1) ELSE s1

\* the alarm branch that books the cycle it interrupts as a finished part
UpdateInAlarm_CountsCycle(s, dt, r) ==
  LET booked == IF s.cyclePhase # "IDLE" THEN 1 ELSE 0
      s1 == [s EXCEPT !.execution = "ALARM", !.cyclePhase = "IDLE",
                      !.partCount = @ + booked, !.totalCycles = @ + booked,
                      !.spindleSpeed = Max(0, @ - 500 * dt), !.feedRate = 0]
  IN  IF Lt(r.gate, 20) THEN _clearAlarm(s1) ELSE s1

\* lines 156-168: the call that starts with an active alarm
UpdateInAlarm(s, dt, r) ==
  LET s1 == [s EXCEPT !.execution = "ALARM", !.cyclePhase = "IDLE",
                      !.spindleSpeed = Max(0, @ - 500 * dt), !.feedRate = 0]
  IN  IF Lt(r.gate, 20) THEN _clearAlarm(s1) ELSE s1

\* lines 170-177: dispatch on the machine type
UpdateCycle(s, dt, r) ==
  IF s.type = "CNC_MILL" \/ s.type = "LATHE" THEN _updateCNCCycle(s, dt, r)
  ELSE IF s.type = "PRESS_BRAKE" THEN _updatePressCycle(s, dt, r)
  ELSE IF s.type = "LASER" THEN _updateLaserCycle(s, dt, r)
  ELSE s

\* the power-off branch that runs the hour and phase timers first
UpdatePoweredOff_RunsTimers(s) ==
  [s EXCEPT !.execution = "STOPPED", !.cyclePhase = "IDLE", !.spindleSpeed = 0,
            !.spindleLoad = 0, !.feedRate = 0,
            !.machineOnHours = @ + SimDt, !.timeInPhase = @ + SimDt]

\* the power-off branch that does what setPower(false) does and no more
UpdatePoweredOff_LikeSetPower(s) ==
  [s EXCEPT !.execution = "STOPPED", !.cyclePhase = "IDLE"]

\* the power-off branch that drops the active alarm as well
UpdatePoweredOff_ClearsAlarm(s) ==
  _clearAlarm([s EXCEPT !.cyclePhase = "IDLE", !.spindleSpeed = 0,
                        !.spindleLoad = 0, !.feedRate = 0])

\* lines 144-151: the call on a machine that is powered off
UpdatePoweredOff(s) ==
  [s EXCEPT !.execution = "STOPPED", !.cyclePhase = "IDLE", !.spindleSpeed = 0,
            !.spindleLoad = 0, !.feedRate = 0]

\* update whose alarm branch does not return: the cycle runs under the alarm
update_AlarmBranchFallsThrough(s, dt, r) ==
  IF ~s.power
  THEN UpdatePoweredOff(s)
  ELSE LET s1 == [s EXCEPT !.machineOnHours = @ + dt, !.timeInPhase = @ + dt]
           s2 == IF s1.alarm # "null" THEN UpdateInAlarm(s1, dt, r) ELSE s1
       IN  _updateWarnings(_checkAlarms(_updateHealthSensors(UpdateCycle(s2, dt, r), dt, r), r))

update(s, dt, r) ==
  IF ~s.power
  THEN UpdatePoweredOff(s)
  ELSE LET s1 == [s EXCEPT !.machineOnHours = @ + dt, !.timeInPhase = @ + dt]
       IN  IF s1.alarm # "null"
           THEN UpdateInAlarm(s1, dt, r)
           ELSE _updateWarnings(_checkAlarms(_updateHealthSensors(UpdateCycle(s1, dt, r), dt, r), r))

(* ---------------------------------------------------------------------- *)
(* Operations                                                              *)
(* ---------------------------------------------------------------------- *)

\* The state.  machines maps the ids of the machines under study to their
\* HaasMachine objects.  last is the operation that led to the state: its
\* name, its machine, its arguments and the machine as the operation found
\* it (pre).  injected[id] is the latest injectAlarm call on the machine:
\* its code and the number of its alarm.  budget[p] is the number of
\* operations that the behaviour may still draw from pool p.

\* the requests of POST /api/machines/:id/alarm that the model sends
InjectSet == { <<"103", "X AXIS FOLLOWING ERROR">>, <<"null", "MANUAL TEST">> }

NoInject == [seq |-> 0, code |-> "none"]

\* the WebSocket clients that may connect
ClientIds == {"c1", "c2"}

\* a client that has not connected: it is not in wss.clients
NoClient == [readyState |-> "NONE", inbox |-> <<>>]

\* machine.update(dtSec), dt from D and the draws from R.  The call draws
\* on pool tp, and on pool ap when it sets an alarm.
Update(D, R, tp, ap) ==
  \E id \in DOMAIN machines, dt \in D, r \in R :
    LET s2 == update(machines[id], dt, r)
        fired == s2.alarmsSet # machines[id].alarmsSet
    IN  /\ budget[tp] > 0
        /\ fired => budget[ap] > (IF ap = tp THEN 1 ELSE 0)
        /\ machines' = [machines EXCEPT ![id] = s2]
        /\ last' = [op |-> "update", id |-> id, pre |-> machines[id]]
        /\ budget' = [p \in DOMAIN budget |->
                        budget[p] - (IF p = tp THEN 1 ELSE 0)
                                  - (IF p = ap /\ fired THEN 1 ELSE 0)]
        /\ UNCHANGED <<injected, clients, advanced>>

\* machine.setPower(power)
SetPower(cp) ==
  \E id \in DOMAIN machines, state \in BOOLEAN :
    /\ budget[cp] > 0
    /\ machines' = [machines EXCEPT ![id] = setPower(@, state)]
    /\ last' = [op |-> "setPower", id |-> id, state |-> state, pre |-> machines[id]]
    /\ budget' = [budget EXCEPT ![cp] = @ - 1]
    /\ UNCHANGED <<injected, clients, advanced>>

\* machine.injectAlarm(code || null, message)
InjectAlarm(I, cp) ==
  \E id \in DOMAIN machines, a \in I :
    /\ budget[cp] > 0
    /\ machines' = [machines EXCEPT ![id] = injectAlarm(@, a[1], a[2])]
    /\ last' = [op |-> "injectAlarm", id |-> id, code |-> a[1], message |-> a[2],
                pre |-> machines[id]]
    /\ injected' = [injected EXCEPT ![id] = [seq |-> machines[id].alarmsSet + 1,
                                             code |-> a[1]]]
    /\ budget' = [budget EXCEPT ![cp] = @ - 1]
    /\ UNCHANGED <<clients, advanced>>

\* machine.clearAlarm()
ClearAlarm(cp) ==
  \E id \in DOMAIN machines :
    /\ budget[cp] > 0
    /\ machines' = [machines EXCEPT ![id] = clearAlarm(@)]
    /\ last' = [op |-> "clearAlarm", id |-> id, pre |-> machines[id]]
    /\ budget' = [budget EXCEPT ![cp] = @ - 1]
    /\ UNCHANGED <<injected, clients, advanced>>

\* machine.update(dtSec) on a powered-on machine with an active alarm, the
\* draw of line 164 being below 0.02: the call that clears the alarm.  It
\* draws on no pool: what a behaviour bounds is the draws that fail.
AutoClearUpdate(D, R) ==
  \E id \in DOMAIN machines, dt \in D, r \in R :
    /\ machines[id].power /\ machines[id].alarm # "null"
    /\ Lt(r.gate, 20)
    /\ machines' = [machines EXCEPT ![id] = update(@, dt, r)]
    /\ last' = [op |-> "update", id |-> id, pre |-> machines[id]]
    /\ UNCHANGED <<injected, budget, clients, advanced>>

\* the forced-load scenario: spindleLoad is assigned 96 from outside, then
\* machine.update(dtSec) runs with Math.random() stubbed: every probability
\* draw succeeds and every magnitude draw returns u; dt and u are those of
\* the scenario's first call
ForcedUpdate(D, U, tp) ==
  \E id \in DOMAIN machines, dt \in D, u \in U :
    LET forced == [machines[id] EXCEPT !.spindleLoad = 9600]
        r == [gate |-> 0, mag |-> u, alarms |-> [k \in 1..MaxAlarmDraws |-> TRUE]]
    IN  /\ budget[tp] > 0
        /\ last.op # "new" => (last.dt = dt /\ last.stub = u)
        /\ machines' = [machines EXCEPT ![id] = update(forced, dt, r)]
        /\ last' = [op |-> "update", id |-> id, pre |-> forced, dt |-> dt, stub |-> u]
        /\ budget' = [budget EXCEPT ![tp] = @ - 1]
        /\ UNCHANGED <<injected, clients, advanced>>

\* the forced-vibration scenario: vibration is assigned 5.5 from outside,
\* then machine.update(dtSec) runs with Math.random() stubbed: every
\* probability draw succeeds and every magnitude draw returns u; dt and u are
\* those of the scenario's first call
VibrationUpdate(D, U, tp) ==
  \E id \in DOMAIN machines, dt \in D, u \in U :
    LET forced == [machines[id] EXCEPT !.vibration = 55000]
        r == [gate |-> 0, mag |-> u, alarms |-> [k \in 1..MaxAlarmDraws |-> TRUE]]
    IN  /\ budget[tp] > 0
        /\ last.op # "new" => (last.dt = dt /\ last.stub = u)
        /\ machines' = [machines EXCEPT ![id] = update(forced, dt, r)]
        /\ last' = [op |-> "update", id |-> id, pre |-> forced, dt |-> dt, stub |-> u]
        /\ budget' = [budget EXCEPT ![tp] = @ - 1]
        /\ UNCHANGED <<injected, clients, advanced>>

\* one machine of the fleet, as constructed
InitMachine(ids, U) ==
  /\ \E id \in ids, u \in U :
       machines = (id :> HaasMachine(id, FleetSpecs[id], u, u))
  /\ last = [op |-> "new"]
  /\ injected = [id \in DOMAIN machines |-> NoInject]
  /\ clients = [c \in ClientIds |-> NoClient]
  /\ advanced = [id \in DOMAIN machines |-> 0]

NoAlarmDraw == [k \in 1..MaxAlarmDraws |-> FALSE]
EveryAlarmDraw == [k \in 1..MaxAlarmDraws |-> TRUE]

(* ---------------------------------------------------------------------- *)
(* Server (server.js): snapshots, tick driver, routes, WebSocket           *)
(* ---------------------------------------------------------------------- *)

\* toJSON with slice(0, 5) in place of slice(-5): the oldest entries
toJSON_KeepsFirst5(s) ==
  [id |-> s.id, type |-> s.type, power |-> s.power, execution |-> s.execution,
   cyclePhase |-> s.cyclePhase, alarm |-> s.alarm, alarmCode |-> s.alarmCode,
   alarmHistory |-> SubSeq(s.alarmHistory, 1, Min(5, Len(s.alarmHistory))),
   warnings |-> s.warnings, spindleLoad |-> (s.spindleLoad + 5) \div 10,
   partCount |-> s.partCount, totalCycles |-> s.totalCycles]

\* toJSON(): the fields of the snapshot that the model keeps.  alarmHistory
\* is slice(-5); spindleLoad is parseFloat(toFixed(1)), here in tenths.
toJSON(s) ==
  [id |-> s.id, type |-> s.type, power |-> s.power, execution |-> s.execution,
   cyclePhase |-> s.cyclePhase, alarm |-> s.alarm, alarmCode |-> s.alarmCode,
   alarmHistory |-> SliceLast(s.alarmHistory, Min(5, Len(s.alarmHistory))),
   warnings |-> s.warnings, spindleLoad |-> (s.spindleLoad + 5) \div 10,
   partCount |-> s.partCount, totalCycles |-> s.totalCycles]

\* the PLANT_UPDATE message: one snapshot per machine of the fleet.  ticks
\* is not part of the payload: it records how many times the tick driver
\* had advanced each machine when the message was built.
PlantUpdate(ms, adv) ==
  [type |-> "PLANT_UPDATE", machines |-> [id \in DOMAIN ms |-> toJSON(ms[id])],
   ticks |-> adv]

\* a forEach that gives way after its first machine
ForEachUpdate_StopsAfterFirst(ms, adv, rs) ==
  LET first == CHOOSE id \in DOMAIN ms : id = "haas_vf2" \/ DOMAIN ms = {id}
  IN  [machines |-> [ms EXCEPT ![first] = update(@, SimDt, rs[first])],
       advanced |-> [adv EXCEPT ![first] = @ + 1]]

\* Object.values(machines).forEach(machine => machine.update(dtSec)): every
\* machine is advanced once, rs[id] being the draws of its call
ForEachUpdate(ms, adv, rs) ==
  [machines |-> [id \in DOMAIN ms |-> update(ms[id], SimDt, rs[id])],
   advanced |-> [id \in DOMAIN ms |-> adv[id] + 1]]

\* a broadcast without the readyState test: every client of wss.clients is
\* sent the message
Broadcast_NoReadyStateTest(cl, msg) ==
  [c \in DOMAIN cl |->
     IF cl[c].readyState \in {"OPEN", "CLOSING"}
     THEN [cl[c] EXCEPT !.inbox = Append(@, msg)]
     ELSE cl[c]]

\* wss.clients.forEach: the message goes to the clients whose readyState is
\* OPEN; the others are passed over
Broadcast(cl, msg) ==
  [c \in DOMAIN cl |->
     IF cl[c].readyState = "OPEN"
     THEN [cl[c] EXCEPT !.inbox = Append(@, msg)]
     ELSE cl[c]]

\* the callback of setInterval: it runs to completion before any other
\* callback of the event loop
Tick(R, tp) ==
  \E rs \in [DOMAIN machines -> R] :
    LET plant == ForEachUpdate(machines, advanced, rs)
    IN  /\ budget[tp] > 0
        /\ machines' = plant.machines
        /\ advanced' = plant.advanced
        /\ clients' = Broadcast(clients, PlantUpdate(plant.machines, plant.advanced))
        /\ last' = [op |-> "tick", before |-> machines, clients |-> clients]
        /\ budget' = [budget EXCEPT ![tp] = @ - 1]
        /\ UNCHANGED injected

\* wss.on('connection'): the new client is OPEN and is sent the current
\* state at once
Connect(cp) ==
  \E c \in DOMAIN clients :
    /\ budget[cp] > 0
    /\ clients[c].readyState = "NONE"
    /\ clients' = [clients EXCEPT
                     ![c] = [readyState |-> "OPEN",
                             inbox |-> <<PlantUpdate(machines, advanced)>>]]
    /\ last' = [op |-> "connect", client |-> c, before |-> machines]
    /\ budget' = [budget EXCEPT ![cp] = @ - 1]
    /\ UNCHANGED <<machines, injected, advanced>>

\* the closing handshake of a client: OPEN -> CLOSING (still in
\* wss.clients) -> CLOSED (removed)
Close(cp) ==
  \E c \in DOMAIN clients :
    /\ budget[cp] > 0
    /\ clients[c].readyState \in {"OPEN", "CLOSING"}
    /\ clients' = [clients EXCEPT
                     ![c].readyState = IF @ = "OPEN" THEN "CLOSING" ELSE "CLOSED"]
    /\ last' = [op |-> "close", client |-> c, before |-> machines]
    /\ budget' = [budget EXCEPT ![cp] = @ - 1]
    /\ UNCHANGED <<machines, injected, advanced>>

\* own keys of Object.prototype, which every object literal inherits
ObjectPrototypeKeys ==
  {"constructor", "toString", "valueOf", "hasOwnProperty", "__proto__"}

\* machines[req.params.id] on the object literal: the machine, a member
\* inherited from Object.prototype, or undefined
Lookup(id) ==
  IF id \in DOMAIN machines THEN "machine"
  ELSE IF id \in ObjectPrototypeKeys THEN "inherited"
  ELSE "undefined"

\* ids that no machine of the fleet has: one that names nothing, and one
\* that names a member of Object.prototype
StrangerIds == {"mazak_01", "constructor"}

\* JSON values of a request body, by typeof
Undefined == [t |-> "undefined"]
Bool(b) == [t |-> "boolean", b |-> b]
Str(s) == [t |-> "string", s |-> s]
Num(n) == [t |-> "number", n |-> n]

\* a test that only asks whether the value is there
Truthy_Defined(v) == v.t # "undefined"

\* !v is false
Truthy(v) ==
  CASE v.t = "boolean" -> v.b
    [] v.t = "string" -> v.s # ""
    [] v.t = "number" -> v.n # 0
    [] OTHER -> FALSE

PowerBodies == {Bool(TRUE), Bool(FALSE), Str("true"), Num(1), Undefined}
MessageBodies == {Str("X AXIS FOLLOWING ERROR"), Str(""), Undefined}
CodeBodies == {Num(103), Undefined}

\* code || null, as the engine's code value
CodeOrNull(v) == IF Truthy(v) THEN ToString(v.n) ELSE "null"

\* the record of a request: the route, the id, the validated body value,
\* the status of the response and the engine operation it called; the TypeError of a call of a method
\* that the looked-up value does not have is answered 500 by express
Answered(op, id, body, status, called) ==
  [op |-> op, id |-> id, body |-> body, status |-> status, called |-> called,
   before |-> machines]

\* GET /api/machines/:id and GET /api/machines/:id/dashboard
GetMachine(IDS, cp) ==
  \E id \in IDS, route \in {"GET machine", "GET dashboard"} :
    LET found == Lookup(id)
        status == IF found = "undefined" THEN 404
                  ELSE IF found = "inherited" THEN 500 ELSE 200
    IN  /\ budget[cp] > 0
        /\ last' = Answered(route, id, Undefined, status,
                         IF status = 200 THEN "toJSON" ELSE "none")
        /\ budget' = [budget EXCEPT ![cp] = @ - 1]
        /\ UNCHANGED <<machines, injected, clients, advanced>>

\* POST /api/machines/:id/power
PostPower(IDS, cp) ==
  \E id \in IDS, power \in PowerBodies :
    LET found == Lookup(id)
        status == IF found = "undefined" THEN 404
                  ELSE IF power.t # "boolean" THEN 400
                  ELSE IF found = "inherited" THEN 500 ELSE 200
    IN  /\ budget[cp] > 0
        /\ machines' = IF status = 200
                       THEN [machines EXCEPT ![id] = setPower(@, power.b)]
                       ELSE machines
        /\ last' = Answered("POST power", id, power, status,
                            IF status = 200 THEN "setPower" ELSE "none")
        /\ budget' = [budget EXCEPT ![cp] = @ - 1]
        /\ UNCHANGED <<injected, clients, advanced>>

\* POST /api/machines/:id/alarm
PostAlarm(IDS, cp) ==
  \E id \in IDS, code \in CodeBodies, message \in MessageBodies :
    LET found == Lookup(id)
        status == IF found = "undefined" THEN 404
                  ELSE IF ~Truthy(message) THEN 400
                  ELSE IF found = "inherited" THEN 500 ELSE 200
    IN  /\ budget[cp] > 0
        /\ machines' = IF status = 200
                       THEN [machines EXCEPT ![id] = injectAlarm(@, CodeOrNull(code), message.s)]
                       ELSE machines
        /\ injected' = IF status = 200
                       THEN [injected EXCEPT ![id] = [seq |-> machines[id].alarmsSet + 1,
                                                      code |-> CodeOrNull(code)]]
                       ELSE injected
        /\ last' = Answered("POST alarm", id, message, status,
                            IF status = 200 THEN "injectAlarm" ELSE "none")
        /\ budget' = [budget EXCEPT ![cp] = @ - 1]
        /\ UNCHANGED <<clients, advanced>>

\* DELETE /api/machines/:id/alarm
DeleteAlarm(IDS, cp) ==
  \E id \in IDS :
    LET found == Lookup(id)
        status == IF found = "undefined" THEN 404
                  ELSE IF found = "inherited" THEN 500 ELSE 200
    IN  /\ budget[cp] > 0
        /\ machines' = IF status = 200
                       THEN [machines EXCEPT ![id] = clearAlarm(@)]
                       ELSE machines
        /\ last' = Answered("DELETE alarm", id, Undefined, status,
                            IF status = 200 THEN "clearAlarm" ELSE "none")
        /\ budget' = [budget EXCEPT ![cp] = @ - 1]
        /\ UNCHANGED <<injected, clients, advanced>>

\* the status record of GET /api/plant/status: the counts of the machines
\* by execution mode, and of those whose power is off (totalParts,
\* totalCycles, avgProductionRate and timestamp are not kept)
PlantStatus(ms) ==
  [total |-> Cardinality(DOMAIN ms),
   running |-> Cardinality({id \in DOMAIN ms : ms[id].execution = "RUNNING"}),
   idle |-> Cardinality({id \in DOMAIN ms : ms[id].execution = "IDLE"}),
   alarm |-> Cardinality({id \in DOMAIN ms : ms[id].execution = "ALARM"}),
   stopped |-> Cardinality({id \in DOMAIN ms : ~ms[id].power})]

\* GET /api/plant/status
GetPlantStatus(cp) ==
  /\ budget[cp] > 0
  /\ last' = [op |-> "GET plant/status", status |-> 200,
              body |-> PlantStatus(machines), before |-> machines]
  /\ budget' = [budget EXCEPT ![cp] = @ - 1]
  /\ UNCHANGED <<machines, injected, clients, advanced>>

\* the fleet as server.js constructs it, restricted to ids
InitFleet(ids) ==
  /\ machines = [id \in ids |-> HaasMachine(id, FleetSpecs[id], 0, 0)]
  /\ last = [op |-> "new"]
  /\ injected = [id \in ids |-> NoInject]
  /\ clients = [c \in ClientIds |-> NoClient]
  /\ advanced = [id \in ids |-> 0]

(* Spec: any machine of the fleet under long updates (each phase of a      *)
(* cycle is one call away from the next) and every command.                *)

Draws == [gate : {0, 999}, mag : {999}, alarms : {NoAlarmDraw, EveryAlarmDraw}]

Init ==
  /\ InitMachine(FleetIds, {0})
  /\ budget = [ticks |-> MaxTicks, auto |-> MaxAutoAlarms, cmds |-> MaxCmds]

Next ==
  \/ Update({LongDt}, Draws, "ticks", "auto")
  \/ SetPower("cmds")
  \/ InjectAlarm(InjectSet, "cmds")
  \/ ClearAlarm("cmds")

Spec == Init /\ [][Next]_vars

(* SpecRun: any machine of the fleet left to run its cycles: no command,  *)
(* no successful alarm draw, every cycle starts at once; the tick driver's *)
(* dt and the long one, low and high magnitude draws.                      *)

RunDraws == [gate : {0}, mag : {0, 999}, alarms : {NoAlarmDraw}]

InitRun ==
  /\ InitMachine(FleetIds, {0})
  /\ budget = [ticks |-> MaxRunTicks, auto |-> MaxAutoAlarms]

NextRun == Update({SimDt, LongDt}, RunDraws, "ticks", "auto")

SpecRun == InitRun /\ [][NextRun]_vars

(* SpecHist: many injected alarms on the laser, with few other operations  *)
(* and snapshot requests among them.                                       *)

InitHist ==
  /\ InitMachine({"fiber_laser"}, {0})
  /\ budget = [injects |-> MaxHistInjects, extras |-> MaxHistExtras,
               auto |-> MaxAutoAlarms]

NextHist ==
  \/ Update({SimDt}, Draws, "extras", "auto")
  \/ SetPower("extras")
  \/ InjectAlarm({ <<"103", "X AXIS FOLLOWING ERROR">> }, "injects")
  \/ ClearAlarm("extras")
  \/ GetMachine({"fiber_laser"}, "extras")

SpecHist == InitHist /\ [][NextHist]_vars

(* SpecLaser: the laser cutting without a pause (every cycle starts at     *)
(* once, every magnitude draw is high) for many ticks of the driver.       *)

LaserDraws == [gate : {0}, mag : {999}, alarms : {NoAlarmDraw, EveryAlarmDraw}]

InitLaser ==
  /\ InitMachine({"fiber_laser"}, {0})
  /\ budget = [ticks |-> MaxLaserTicks, extras |-> MaxLaserExtras]

NextLaser ==
  \/ Update({SimDt}, LaserDraws, "ticks", "extras")
  \/ SetPower("extras")
  \/ InjectAlarm({ <<"103", "X AXIS FOLLOWING ERROR">> }, "extras")
  \/ ClearAlarm("extras")

SpecLaser == InitLaser /\ [][NextLaser]_vars

(* SpecForce: a mill or the lathe, powered on with no alarm, under the      *)
(* forced-load scenario: 100 calls at the tick driver's dt with one stub   *)
(* value.                                                                  *)

InitForce ==
  /\ InitMachine({"haas_vf2", "cnc_lathe"}, {0})
  /\ budget = [forced |-> MaxForcedTicks]

NextForce == ForcedUpdate({SimDt}, {0, 500, 999}, "forced")

SpecForce == InitForce /\ [][NextForce]_vars

(* SpecVib: a mill or the lathe, powered on with no alarm, under the        *)
(* forced-vibration scenario at the tick driver's dt with one stub value.  *)

InitVib ==
  /\ InitMachine({"haas_vf2", "cnc_lathe"}, {0})
  /\ budget = [shaken |-> MaxVibTicks]

NextVib == VibrationUpdate({SimDt}, {0, 500, 999}, "shaken")

SpecVib == InitVib /\ [][NextVib]_vars

(* SpecCycle: the mill left to run cycle after cycle at the tick driver's   *)
(* dt, with no alarm and no command.  Every cycle starts at once; the      *)
(* draws of the call that starts a cycle (target speed, target feed, cycle *)
(* time) are low or high, or low but for a high target feed; every other   *)
(* magnitude draw is high.  The tick driver keeps calling update: weak     *)
(* fairness of its call.                                                   *)

HighDraws == [gate : {0}, mag : {999}, alarms : {NoAlarmDraw}]
LowDraws == [gate : {0}, mag : {0}, alarms : {NoAlarmDraw}]
ShortFastDraws == [gate : {0}, mag : {0}, feed : {999}, alarms : {NoAlarmDraw}]

\* the next update call runs _phaseIdle, which starts a cycle
AtCycleStart == \A id \in DOMAIN machines : machines[id].cyclePhase = "IDLE"

\* the update calls that bring any spindle below maxRPM up to its target
RampTicks == (FleetSpecs.haas_vf2.maxRPM \div (350 * SimDt)) + 1

InitCycle ==
  /\ InitMachine({"haas_vf2"}, {0})
  /\ budget = [ticks |-> MaxCycleTicks, auto |-> 0]

NextCycle ==
  \/ Update({SimDt}, HighDraws, "ticks", "auto")
  \/ AtCycleStart /\ Update({SimDt}, LowDraws, "ticks", "auto")
  \/ AtCycleStart /\ Update({SimDt}, ShortFastDraws, "ticks", "auto")

\* setInterval fires again: a call that the behaviour still has is made
TickDue == budget.ticks > 0 /\ budget' = [budget EXCEPT !.ticks = @ - 1]

SpecCycle == InitCycle /\ [][NextCycle]_vars /\ WF_budget(TickDue)

(* SpecClear: a mill or the laser with alarms set by the evaluation or      *)
(* injected, power commands, and no clearAlarm command.  The update calls  *)
(* whose clearing draw fails are bounded; the tick driver keeps calling    *)
(* update and the clearing draw is fair: the call that clears an alarm is  *)
(* made if it stays possible.                                              *)

InitClear ==
  /\ InitMachine({"haas_vf2", "fiber_laser"}, {0})
  /\ budget = [ticks |-> MaxClearTicks, auto |-> MaxAutoAlarms, cmds |-> MaxClearCmds]

NextClear ==
  \/ Update({SimDt}, Draws, "ticks", "auto")
  \/ AutoClearUpdate({SimDt}, HighDraws)
  \/ SetPower("cmds")
  \/ InjectAlarm(InjectSet, "cmds")

SpecClear ==
  InitClear /\ [][NextClear]_vars /\ WF_vars(AutoClearUpdate({SimDt}, HighDraws))

(* SpecResume: the laser at the tick driver's dt, its cycles interrupted by *)
(* power commands and alarms and started again; a cycle starts or not, and *)
(* the magnitude draws are low or high.                                    *)

ResumeDraws == [gate : {0, 999}, mag : {0, 999}, alarms : {NoAlarmDraw}]

InitResume ==
  /\ InitMachine({"fiber_laser"}, {0})
  /\ budget = [ticks |-> MaxResumeTicks, auto |-> 0, cmds |-> MaxResumeCmds]

NextResume ==
  \/ Update({SimDt}, ResumeDraws, "ticks", "auto")
  \/ SetPower("cmds")
  \/ InjectAlarm(InjectSet, "cmds")
  \/ ClearAlarm("cmds")

SpecResume == InitResume /\ [][NextResume]_vars

(* SpecHeat: the press brake or the laser working cycle after cycle under   *)
(* high load for many ticks of the driver, after it has stood idle or not. *)

IdleDraws == [gate : {999}, mag : {999}, alarms : {NoAlarmDraw}]

\* the machine has not started a cycle yet
BeforeFirstCycle ==
  \A id \in DOMAIN machines :
    machines[id].cyclePhase = "IDLE" /\ machines[id].totalCycles = 0

InitHeat ==
  /\ InitMachine({"durma_press", "fiber_laser"}, {0})
  /\ budget = [ticks |-> MaxHeatTicks, idles |-> MaxHeatIdles, auto |-> 0]

NextHeat ==
  \/ Update({SimDt}, HighDraws, "ticks", "auto")
  \/ BeforeFirstCycle /\ Update({SimDt}, IdleDraws, "idles", "auto")

SpecHeat == InitHeat /\ [][NextHeat]_vars

(* SpecCount: any machine of the fleet under long updates for the calls of *)
(* a whole mill cycle and more, with every command and one automatic       *)
(* alarm among them; every cycle starts at once and an alarm is cleared by *)
(* the first update call that meets it.                                    *)

CountDraws == [gate : {0}, mag : {999}, alarms : {NoAlarmDraw, EveryAlarmDraw}]

InitCount ==
  /\ InitMachine(FleetIds, {0})
  /\ budget = [ticks |-> MaxCountTicks, auto |-> MaxAutoAlarms, cmds |-> MaxCountCmds]

NextCount ==
  \/ Update({LongDt}, CountDraws, "ticks", "auto")
  \/ SetPower("cmds")
  \/ InjectAlarm({ <<"null", "MANUAL TEST">> }, "cmds")
  \/ ClearAlarm("cmds")

SpecCount == InitCount /\ [][NextCount]_vars

(* SpecApi: the server with a mill and the laser: ticks, and the routes    *)
(* with good and bad ids and bodies.                                       *)

ApiDraws == [gate : {0}, mag : {999}, alarms : {NoAlarmDraw}]

ApiIds == {"haas_vf2", "fiber_laser"}

InitApi ==
  /\ InitFleet(ApiIds)
  /\ budget = [ticks |-> MaxApiTicks, requests |-> MaxApiRequests]

NextApi ==
  \/ Tick(ApiDraws, "ticks")
  \/ GetMachine(ApiIds \cup StrangerIds, "requests")
  \/ PostPower(ApiIds \cup StrangerIds, "requests")
  \/ PostAlarm(ApiIds \cup StrangerIds, "requests")
  \/ DeleteAlarm(ApiIds \cup StrangerIds, "requests")

SpecApi == InitApi /\ [][NextApi]_vars

(* SpecPlant: the server with a mill and the laser: ticks, well-formed     *)
(* commands to the machines and requests of the plant status.               *)

InitPlant ==
  /\ InitFleet(ApiIds)
  /\ budget = [ticks |-> MaxPlantTicks, requests |-> MaxPlantRequests]

NextPlant ==
  \/ Tick(ApiDraws, "ticks")
  \/ PostPower(ApiIds, "requests")
  \/ PostAlarm(ApiIds, "requests")
  \/ DeleteAlarm(ApiIds, "requests")
  \/ GetPlantStatus("requests")

SpecPlant == InitPlant /\ [][NextPlant]_vars

(* SpecWs: the server with a mill and the laser, WebSocket clients that    *)
(* come and go, ticks with their broadcast, and commands in between.       *)

InitWs ==
  /\ InitFleet(ApiIds)
  /\ budget = [ticks |-> MaxWsTicks, requests |-> MaxWsRequests,
               events |-> MaxClientEvents]

NextWs ==
  \/ Tick(ApiDraws, "ticks")
  \/ Connect("events")
  \/ Close("events")
  \/ PostPower({"haas_vf2"}, "requests")
  \/ PostAlarm({"fiber_laser"}, "requests")
  \/ DeleteAlarm({"fiber_laser"}, "requests")

SpecWs == InitWs /\ [][NextWs]_vars

(* ---------------------------------------------------------------------- *)
(* Claims                                                                  *)
(* ---------------------------------------------------------------------- *)

Ids == DOMAIN machines

\* the operation that led to the state was update on machine id
Updated(id) == last.op = "update" /\ last.id = id

\* ... on the powered-on machine that had an active alarm
UpdatedInAlarm(id) == Updated(id) /\ last.pre.power /\ last.pre.alarm # "null"

\* ... on the powered-on machine that had no active alarm
UpdatedRunning(id) == Updated(id) /\ last.pre.power /\ last.pre.alarm = "null"

\* C1: setPower(false) leaves power = false, and the update call that finds
\* the machine powered off ends with execution = STOPPED, cyclePhase = IDLE,
\* spindleSpeed = 0 and feedRate = 0, whatever the state before.
C1_PowerOffUpdate ==
  \A id \in Ids :
    LET m == machines[id] IN
    /\ (last.op = "setPower" /\ last.id = id /\ ~last.state) => ~m.power
    /\ (Updated(id) /\ ~last.pre.power) =>
         /\ m.execution = "STOPPED" /\ m.cyclePhase = "IDLE"
         /\ m.spindleSpeed = 0 /\ m.feedRate = 0

\* a machine with an active alarm and a turning spindle was powered off,
\* then updated
C1_Witness ==
  \E id \in Ids :
    /\ Updated(id) /\ ~last.pre.power
    /\ last.pre.alarm # "null" /\ last.pre.spindleSpeed > 0

C3_AlarmFreezesCycle ==
  \A id \in Ids :
    LET m == machines[id] IN
    UpdatedInAlarm(id) =>
      /\ m.cyclePhase = "IDLE"
      /\ m.partCount = last.pre.partCount /\ m.totalCycles = last.pre.totalCycles
      /\ m.alarm # "null" => m.execution = "ALARM"

\* the second of two consecutive updates under the same alarm
C3_Witness ==
  \E id \in Ids :
    /\ UpdatedInAlarm(id) /\ machines[id].alarm # "null"
    /\ last.pre.execution = "ALARM"

\* the operation that led to the state cleared the alarm of machine id:
\* clearAlarm(), or the automatic clear of an update call
ClearedBy(id) ==
  \/ last.op = "clearAlarm" /\ last.id = id
  \/ UpdatedInAlarm(id) /\ machines[id].alarm = "null"

\* C4: a clear, automatic or by clearAlarm(), leaves alarm = null,
\* alarmCode = null and execution = IDLE, and the alarm history as it was
\* but for cleared = true on its newest entry.
C4_ClearMarksNewest ==
  \A id \in Ids :
    LET m == machines[id]
        h == last.pre.alarmHistory
    IN  ClearedBy(id) =>
          /\ m.alarm = "null" /\ m.alarmCode = "null" /\ m.execution = "IDLE"
          /\ Len(m.alarmHistory) = Len(h)
          /\ \A i \in 1..Len(h) :
               /\ m.alarmHistory[i].code = h[i].code
               /\ m.alarmHistory[i].message = h[i].message
               /\ m.alarmHistory[i].seq = h[i].seq
               /\ m.alarmHistory[i].cleared = (h[i].cleared \/ i = Len(h))

\* an automatic clear of an alarm whose entry was uncleared, with an older
\* entry below it
C4_Witness ==
  \E id \in Ids :
    /\ UpdatedInAlarm(id) /\ machines[id].alarm = "null"
    /\ Len(last.pre.alarmHistory) >= 2
    /\ ~Last(last.pre.alarmHistory).cleared

\* C5: the alarm history holds the last min(20, n) of the n alarms set,
\* oldest first.
C5_HistoryLast20 ==
  \A id \in Ids :
    LET m == machines[id]
        h == m.alarmHistory
    IN  /\ Len(h) <= 20
        /\ Len(h) = Min(20, m.alarmsSet)
        /\ \A i \in 1..Len(h) : h[i].seq = m.alarmsSet - Len(h) + i

\* a 22nd alarm was set: the two oldest entries are gone, and an automatic
\* alarm is among those kept
C5_Witness ==
  \E id \in Ids :
    LET h == machines[id].alarmHistory IN
    /\ machines[id].alarmsSet = 22 /\ Len(h) = 20 /\ h[1].seq = 3
    /\ \E i \in 1..Len(h) : h[i].message = "LASER_POWER_FAULT"

\* C6 as stated: every axis position lies within the axis limits of the
\* machine's spec.
C6_AxisWithinLimits ==
  \A id \in Ids : \A a \in Axes :
    LET m == machines[id] IN
    /\ m.axisPositions[a] >= m.specs.axisLimits[a][1] * 100
    /\ m.axisPositions[a] <= m.specs.axisLimits[a][2] * 100

\* C7: after every update call spindleLoad is in [0, 100], toolWear in
\* [0, 1], every tool's currentLife in [0, 100], the coolant level in
\* [0, 100], batteryVoltage in [2.8, 3.6], oilLevel in [20, 100] and
\* spindleOrientation in [0, 360).
C7_ClampedRanges ==
  \A id \in Ids :
    LET m == machines[id] IN
    /\ m.spindleLoad >= 0 /\ m.spindleLoad <= 10000
    /\ m.toolWear >= 0 /\ m.toolWear <= 100000000
    /\ \A i \in 1..Len(m.tools) :
         m.tools[i].currentLife >= 0 /\ m.tools[i].currentLife <= 10000000
    /\ m.coolant.level >= 0 /\ m.coolant.level <= 10000000
    /\ m.batteryVoltage >= 28000 /\ m.batteryVoltage <= 36000
    /\ m.oilLevel >= 20000 /\ m.oilLevel <= 100000
    /\ m.spindleOrientation >= 0 /\ m.spindleOrientation < 21600

\* a mill or lathe in a cut that has worn the tool and drawn coolant, its
\* battery at the floor after a long update, its spindle turned
C7_Witness ==
  \E id \in Ids :
    LET m == machines[id] IN
    /\ Updated(id) /\ IsCNC(m.type) /\ last.pre.cyclePhase = "CUTTING"
    /\ m.batteryVoltage = 28000
    /\ m.toolWear > 0 /\ m.coolant.level < 10000000
    /\ m.spindleOrientation > 0

PhaseOrder ==
  <<"IDLE", "SPINDLE_RAMP", "RAPID", "CUTTING", "RETRACT", "DWELL", "FINISH">>

\* the phase that follows p in the cycle
NextPhase(p) ==
  LET i == CHOOSE k \in 1..Len(PhaseOrder) : PhaseOrder[k] = p
  IN  PhaseOrder[(i % Len(PhaseOrder)) + 1]

\* C8: an update call on a powered-on mill or lathe with no active alarm
\* leaves cyclePhase as it was or moves it to the next phase of IDLE ->
\* SPINDLE_RAMP -> RAPID -> CUTTING -> RETRACT -> DWELL -> FINISH -> IDLE;
\* partCount and totalCycles grow by 1 in the call that processes FINISH and
\* are unchanged by every other call.
C8_CycleOrder ==
  \A id \in Ids :
    LET m == machines[id]
        inc == IF last.pre.cyclePhase = "FINISH" THEN 1 ELSE 0
    IN  (UpdatedRunning(id) /\ IsCNC(m.type)) =>
          /\ m.cyclePhase \in {last.pre.cyclePhase, NextPhase(last.pre.cyclePhase)}
          /\ last.pre.cyclePhase = "FINISH" => m.cyclePhase = "IDLE"
          /\ m.partCount = last.pre.partCount + inc
          /\ m.totalCycles = last.pre.totalCycles + inc

\* the call that processes FINISH at the end of a whole cycle
C8_Witness ==
  \E id \in Ids :
    LET m == machines[id] IN
    /\ UpdatedRunning(id) /\ IsCNC(m.type)
    /\ last.pre.cyclePhase = "FINISH" /\ m.cyclePhase = "IDLE"
    /\ m.partCount = 1 /\ m.spindleHours > 0

\* C9 as stated: one update call sets at most one alarm.
C9_OneAlarmPerUpdate ==
  \A id \in Ids :
    Updated(id) => machines[id].alarmsSet <= last.pre.alarmsSet + 1

\* the history entry that _setAlarm(code, message) appends on machine s
EntryOf(s, code, message) ==
  [code |-> code, message |-> message, seq |-> s.alarmsSet + 1,
   cyclePhase |-> s.cyclePhase, spindleLoad |-> s.spindleLoad, cleared |-> FALSE]

\* C10: injectAlarm(code, message) sets alarm = message and
\* alarmCode = code and appends the entry {code, message, cyclePhase and
\* spindleLoad at the call, cleared = false}; an update call that sets an
\* alarm leaves the same kind of entry for its alarm; and clearAlarm() after
\* an injection, with no alarm set in between, leaves alarm = null,
\* alarmCode = null and the newest entry cleared, with the injected code.
C10_InjectThenClear ==
  \A id \in Ids :
    LET m == machines[id] IN
    /\ (last.op = "injectAlarm" /\ last.id = id) =>
         /\ m.alarm = last.message /\ m.alarmCode = last.code
         /\ Last(m.alarmHistory) = EntryOf(last.pre, last.code, last.message)
         /\ Len(m.alarmHistory) = Min(20, Len(last.pre.alarmHistory) + 1)
    /\ (Updated(id) /\ m.alarmsSet = last.pre.alarmsSet + 1) =>
         /\ m.alarm # "null"
         /\ Last(m.alarmHistory) =
              EntryOf([m EXCEPT !.alarmsSet = @ - 1], m.alarmCode, m.alarm)
    /\ (/\ last.op = "clearAlarm" /\ last.id = id
        /\ injected[id] # NoInject /\ injected[id].seq = m.alarmsSet) =>
         /\ m.alarm = "null" /\ m.alarmCode = "null"
         /\ Last(m.alarmHistory).cleared
         /\ Last(m.alarmHistory).code = injected[id].code
         /\ Last(m.alarmHistory).seq = injected[id].seq

\* alarm 103 was injected, an update call met it, clearAlarm() followed
C10_Witness ==
  \E id \in Ids :
    /\ last.op = "clearAlarm" /\ last.id = id
    /\ injected[id].seq = machines[id].alarmsSet /\ injected[id].code = "103"
    /\ last.pre.execution = "ALARM" /\ last.pre.alarm = "X AXIS FOLLOWING ERROR"

\* C11 as stated: once the 100 calls of the forced-load scenario are made,
\* one of them has set alarm = SPINDLE_OVERLOAD with alarmCode = null.
C11_OverloadWithin100 ==
  \A id \in Ids :
    (budget.forced = 0 /\ machines[id].type = "CNC_MILL") =>
      \E i \in 1..Len(machines[id].alarmHistory) :
        /\ machines[id].alarmHistory[i].message = "SPINDLE_OVERLOAD"
        /\ machines[id].alarmHistory[i].code = "null"

\* C12 as stated: after every update call, whatever the power and alarm
\* state, the warnings list is the fresh evaluation of the current values:
\* BATTERY_LOW, COOLANT_LOW, TOOL_WEAR, HIGH_TEMP and HIGH_LOAD each present
\* exactly when its condition holds, at most once.
C12_WarningsFresh ==
  \A id \in Ids :
    Updated(id) => machines[id].warnings = _updateWarnings(machines[id]).warnings

\* the machine as the cycle updater of update(dt) with draws r leaves it
\* (lines 153-177), on a powered-on machine s without alarm
AfterCycle(s, dt, r) ==
  UpdateCycle([s EXCEPT !.machineOnHours = @ + dt, !.timeInPhase = @ + dt], dt, r)

\* C13: an update call whose alarm evaluation sets a new alarm ends with
\* execution and cyclePhase as the cycle updater of that call left them,
\* whichever inputs of the call gave the state; the update call that finds
\* the alarm on the powered-on machine is the one that ends with
\* cyclePhase = IDLE and execution = ALARM (IDLE if it clears the alarm).
C13_AlarmTakesEffectNextTick ==
  \A id \in Ids :
    LET m == machines[id] IN
    /\ (UpdatedRunning(id) /\ m.alarmsSet > last.pre.alarmsSet) =>
         /\ m.alarm # "null"
         /\ \A r \in Draws :
              update(last.pre, LongDt, r) = m =>
                /\ m.execution = AfterCycle(last.pre, LongDt, r).execution
                /\ m.cyclePhase = AfterCycle(last.pre, LongDt, r).cyclePhase
    /\ UpdatedInAlarm(id) =>
         /\ m.cyclePhase = "IDLE"
         /\ m.execution = (IF m.alarm = "null" THEN "IDLE" ELSE "ALARM")

\* the evaluation of a call that moved the cycle on a phase set an alarm:
\* the call ends RUNNING in the new phase
C13_Witness ==
  \E id \in Ids :
    LET m == machines[id] IN
    /\ UpdatedRunning(id) /\ m.alarmsSet > last.pre.alarmsSet
    /\ m.execution = "RUNNING" /\ m.cyclePhase # "IDLE"
    /\ m.cyclePhase # last.pre.cyclePhase

\* C14: an update call on a powered-off machine changes execution,
\* cyclePhase, spindleSpeed, spindleLoad and feedRate and nothing else: no
\* timer, alarm field, history entry, warning, counter, position or sensor
\* changes and no alarm is set or cleared; and one more such call, with any
\* input, changes nothing.
C14_PowerOffFrame ==
  \A id \in Ids :
    LET m == machines[id] IN
    (Updated(id) /\ ~last.pre.power) =>
      /\ m = [last.pre EXCEPT !.execution = "STOPPED", !.cyclePhase = "IDLE",
                              !.spindleSpeed = 0, !.spindleLoad = 0, !.feedRate = 0]
      /\ \A dt \in {SimDt, LongDt}, r \in Draws : update(m, dt, r) = m

\* the powered-off machine holds an uncleared alarm, hours on its meter
\* and a spindle that was turning
C14_Witness ==
  \E id \in Ids :
    /\ Updated(id) /\ ~last.pre.power
    /\ last.pre.alarm # "null" /\ ~Last(last.pre.alarmHistory).cleared
    /\ last.pre.machineOnHours > 0 /\ last.pre.spindleSpeed > 0
    /\ last.pre.execution = "STOPPED"

C16_SetPowerFrame ==
  \A id \in Ids :
    LET m == machines[id] IN
    (last.op = "setPower" /\ last.id = id) =>
      /\ ~last.state => m = [last.pre EXCEPT !.power = FALSE, !.execution = "STOPPED",
                                             !.cyclePhase = "IDLE"]
      /\ last.state => m = [last.pre EXCEPT !.power = TRUE]

\* power was cut in the middle of a cycle, the spindle turning
C16_Witness ==
  \E id \in Ids :
    /\ last.op = "setPower" /\ last.id = id /\ ~last.state
    /\ last.pre.power /\ last.pre.execution = "RUNNING"
    /\ last.pre.cyclePhase # "IDLE" /\ machines[id].spindleSpeed > 0

\* the operation that led to the state was a request to a route
Routes == {"GET machine", "GET dashboard", "POST power", "POST alarm", "DELETE alarm"}
Requested == last.op \in Routes

\* C17 as stated: a query or command whose id is not an id of the fleet is
\* answered not found (404) and changes no machine.
C17_UnknownIdNotFound ==
  (Requested /\ last.id \notin DOMAIN machines) =>
    (last.status = 404 /\ last.called = "none" /\ machines = last.before)

\* C18: a power command whose power is not a boolean, and an alarm command
\* whose message is missing or empty, is answered with an error (400 when
\* the id is a machine's), calls no engine operation and changes no machine.
C18_BadPayloadRejected ==
  LET bad == \/ last.op = "POST power" /\ last.body.t # "boolean"
             \/ last.op = "POST alarm" /\ last.body \in {Undefined, Str("")}
  IN  (Requested /\ bad) =>
        /\ last.status \in {400, 404}
        /\ last.id \in DOMAIN machines => last.status = 400
        /\ last.called = "none"
        /\ machines = last.before

\* an alarm command with an empty message to a machine that is running
C18_Witness ==
  /\ last.op = "POST alarm" /\ last.body = Str("")
  /\ last.id \in DOMAIN machines /\ last.status = 400
  /\ machines[last.id].execution = "RUNNING"

\* C19: a tick appends one PLANT_UPDATE message, built from the machines as
\* the tick left them, one snapshot per machine of the fleet, to the inbox
\* of every client that was OPEN, and leaves every other client as it was;
\* a connection gives the new client one such message of the current state
\* at once, without advancing any machine.
C19_BroadcastPerTick ==
  LET msg == PlantUpdate(machines, advanced) IN
  /\ DOMAIN msg.machines = ApiIds
  /\ last.op = "tick" =>
       \A c \in ClientIds :
         clients[c] = IF last.clients[c].readyState = "OPEN"
                      THEN [last.clients[c] EXCEPT !.inbox = Append(@, msg)]
                      ELSE last.clients[c]
  /\ last.op = "connect" =>
       /\ clients[last.client] = [readyState |-> "OPEN", inbox |-> <<msg>>]
       /\ machines = last.before

\* a tick that changed a machine, with one client open since before the
\* tick before and another one closing
C19_Witness ==
  /\ last.op = "tick" /\ machines # last.before
  /\ \E c, d \in ClientIds :
       /\ last.clients[c].readyState = "OPEN" /\ Len(clients[c].inbox) = 3
       /\ last.clients[d].readyState = "CLOSING" /\ Len(clients[d].inbox) = 1

\* C20: in every state every machine has been advanced once per tick run so
\* far, so commands meet the fleet only between ticks; a tick leaves each
\* machine as one update call on the machine of before the tick leaves it;
\* and every message shows all machines advanced the same number of times.
C20_TickIsOneStep ==
  /\ \A id \in Ids : advanced[id] = MaxWsTicks - budget.ticks
  /\ last.op = "tick" =>
       \A id \in Ids : \E r \in ApiDraws : machines[id] = update(last.before[id], SimDt, r)
  /\ \A c \in ClientIds : \A k \in 1..Len(clients[c].inbox) :
       \A i, j \in Ids : clients[c].inbox[k].ticks[i] = clients[c].inbox[k].ticks[j]

\* the second tick, a command having come between the two, with a client
\* that saw both
C20_Witness ==
  /\ last.op = "tick" /\ budget.requests < MaxWsRequests
  /\ \A id \in Ids : advanced[id] = 2
  /\ \E id \in Ids : machines[id].alarm # "null" \/ ~machines[id].power
  /\ \E c \in ClientIds : Len(clients[c].inbox) = 3

\* C21: toJSON returns as alarmHistory the most recent min(5, n) entries of
\* the n in the machine's alarm history, in their order, the whole warnings
\* list, and alarm, alarmCode, execution and cyclePhase as they are; and the
\* request that takes the snapshot leaves every field of every machine as
\* it was.
C21_SnapshotProjection ==
  /\ \A id \in Ids :
       LET m == machines[id]
           h == m.alarmHistory
           data == toJSON(m)
           n == Len(data.alarmHistory)
       IN  /\ n = Min(5, Len(h))
           /\ \A i \in 1..n : data.alarmHistory[i] = h[Len(h) - n + i]
           /\ data.warnings = m.warnings
           /\ data.alarm = m.alarm /\ data.alarmCode = m.alarmCode
           /\ data.execution = m.execution /\ data.cyclePhase = m.cyclePhase
  /\ (Requested /\ last.called = "toJSON") => machines = last.before

\* a snapshot of the laser with more than 5 alarms in its history, a
\* warning listed and an alarm active
C21_Witness ==
  /\ Requested /\ last.called = "toJSON"
  /\ Len(machines[last.id].alarmHistory) > 5
  /\ Len(machines[last.id].warnings) > 0
  /\ machines[last.id].alarm # "null"

\* C22 as stated: an update call on a mill or lathe with no active alarm
\* whose alarm evaluation finds vibration > 5.0 and none of the conditions
\* of higher priority met, and whose draw succeeds, sets the alarm
\* HIGH_VIBRATION with code null.
C22_HighVibrationSet ==
  \A id \in Ids :
    LET m == machines[id] IN
    (/\ UpdatedRunning(id) /\ IsCNC(m.type)
     /\ m.vibration > 50000
     /\ \A i \in 1..8 : ~CNCAlarmMet(m)[i]) =>
      (m.alarm = "HIGH_VIBRATION" /\ m.alarmCode = "null")

\* C23 as stated: a mill in SPINDLE_RAMP that stays powered on with no
\* alarm, and is updated with dt > 0 as many times as any ramp from below
\* the target takes, reaches RAPID, whatever spindle speed it had
\* when the cycle started.
C23_RampReachesRapid ==
  \A id \in FleetIds :
    (/\ id \in Ids /\ machines[id].cyclePhase = "SPINDLE_RAMP"
     /\ budget.ticks >= RampTicks)
      ~> (id \in Ids /\ machines[id].cyclePhase = "RAPID")

\* C24: an update call on a powered-off machine leaves the alarm, its code
\* and the alarm history as they were; and, the clearing draw being fair,
\* an alarm that is active on a powered-on machine leads to a state with no
\* active alarm, or with the power off, without any clearAlarm command.
C24_AutoClearEventually ==
  /\ [](\A id \in Ids :
          (Updated(id) /\ ~last.pre.power) =>
            /\ machines[id].alarm = last.pre.alarm
            /\ machines[id].alarmCode = last.pre.alarmCode
            /\ machines[id].alarmHistory = last.pre.alarmHistory)
  /\ \A id \in FleetIds :
       (id \in Ids /\ machines[id].power /\ machines[id].alarm # "null")
         ~> (id \in Ids /\ (machines[id].alarm = "null" \/ ~machines[id].power))

\* an update call cleared an alarm that an earlier update call had met and
\* kept, both commands of the behaviour having been given
C24_Witness ==
  \E id \in Ids :
    /\ UpdatedInAlarm(id) /\ machines[id].alarm = "null"
    /\ last.pre.execution = "ALARM" /\ budget.cmds = 0 /\ budget.ticks < MaxClearTicks

\* C25 as stated: an update call that runs the RETRACT phase of a mill or
\* lathe never lowers Z; it leaves Z 4.0 * dt higher and the phase as it
\* was, or Z at exactly Z max - 10 with the phase DWELL and the phase timer
\* at 0.
C25_RetractNeverLowersZ ==
  \A id \in Ids :
    LET m == machines[id]
        top == (m.specs.axisLimits.Z[2] - 10) * 100
    IN  (UpdatedRunning(id) /\ IsCNC(m.type) /\ last.pre.cyclePhase = "RETRACT") =>
          /\ m.axisPositions.Z >= last.pre.axisPositions.Z
          /\ \/ /\ m.cyclePhase = "RETRACT"
                /\ m.axisPositions.Z = last.pre.axisPositions.Z + 400 * SimDt
                /\ m.axisPositions.Z < top
             \/ /\ m.cyclePhase = "DWELL" /\ m.timeInPhase = 0
                /\ m.axisPositions.Z = top

\* the time that the update call on the powered-on machine added to the
\* hour meter: its dt
ElapsedDt == machines[last.id].machineOnHours - last.pre.machineOnHours

\* C26: an update call that leaves a press brake in the RUNNING phase leaves
\* the ram position 20 * dt higher, at most 100, tonnage =
\* (ramPosition / 100) * 0.8 * maxTonnage and spindleLoad =
\* tonnage / maxTonnage * 100; the call in which the time in the RUNNING
\* phase has reached 5.0 s adds 1 to partCount and to totalCycles and leaves
\* ramPosition = 0, tonnage = 0, cyclePhase = IDLE, execution = IDLE and
\* timeInPhase = 0; no other call changes the counters.
C26_PressCycle ==
  \A id \in Ids :
    LET m == machines[id]
        s == last.pre
        completes == s.cyclePhase = "RUNNING" /\ s.timeInPhase + ElapsedDt >= 5
    IN  (UpdatedRunning(id) /\ m.type = "PRESS_BRAKE") =>
          /\ m.cyclePhase = "RUNNING" =>
               /\ m.execution = "RUNNING"
               /\ m.ramPosition = Min(100, s.ramPosition + 20 * ElapsedDt)
               /\ m.ramPosition <= 100
               /\ m.tonnage * 100 = m.ramPosition * 800 * m.maxTonnage
               /\ m.spindleLoad * m.maxTonnage = m.tonnage * 10
          /\ completes =>
               /\ m.ramPosition = 0 /\ m.tonnage = 0
               /\ m.cyclePhase = "IDLE" /\ m.execution = "IDLE" /\ m.timeInPhase = 0
          /\ m.partCount = s.partCount + (IF completes THEN 1 ELSE 0)
          /\ m.totalCycles = s.totalCycles + (IF completes THEN 1 ELSE 0)

\* the end of a second press cycle, run at the tick driver's dt with the ram
\* at its stop
C26_Witness ==
  \E id \in Ids :
    /\ UpdatedRunning(id) /\ machines[id].type = "PRESS_BRAKE"
    /\ last.pre.cyclePhase = "RUNNING" /\ last.pre.ramPosition = 100
    /\ ElapsedDt = SimDt /\ machines[id].partCount = 2
    /\ machines[id].ramPosition = 0

\* C27 as stated: an update call that leaves a laser in the RUNNING phase
\* leaves spindleLoad = laserPower / maxLaserPower * 100, cutSpeed at most
\* targetFeed and feedRate = cutSpeed; the call in which the time in the
\* RUNNING phase has reached 8.0 s adds 1 to partCount and to totalCycles and
\* leaves cyclePhase = IDLE, execution = IDLE, cutSpeed = 0 and feedRate = 0;
\* a call that runs the idle branch lowers resonatorTemp by 0.05, not below
\* 26.
C27_LaserCycle ==
  \A id \in Ids :
    LET m == machines[id]
        s == last.pre
        completes == s.cyclePhase = "RUNNING" /\ s.timeInPhase + ElapsedDt >= 8
    IN  (UpdatedRunning(id) /\ m.type = "LASER") =>
          /\ m.cyclePhase = "RUNNING" =>
               /\ m.spindleLoad = (m.laserPower * 10000) \div m.maxLaserPower
               /\ m.cutSpeed <= m.targetFeed
               /\ m.feedRate = m.cutSpeed
          /\ completes =>
               /\ m.cyclePhase = "IDLE" /\ m.execution = "IDLE"
               /\ m.cutSpeed = 0 /\ m.feedRate = 0
          /\ m.partCount = s.partCount + (IF completes THEN 1 ELSE 0)
          /\ m.totalCycles = s.totalCycles + (IF completes THEN 1 ELSE 0)
          /\ (s.cyclePhase = "IDLE" /\ m.cyclePhase = "IDLE") =>
               /\ m.resonatorTemp = Max(260000, s.resonatorTemp - 500)
               /\ m.resonatorTemp >= 260000

\* C28: on a mill or lathe no operation raises a tool's currentLife; the
\* life changes only for the tool of index currentTool and only in an update
\* call that runs the CUTTING phase, where it drops by at most 0.02 and not
\* below 0; every other tool is as constructed, and currentTool and the
\* number of tools are those of the construction.
C28_ToolLifeOnlyWears ==
  \A id \in Ids :
    LET m == machines[id]
        s == last.pre
        built == _initializeTools(m.type, m.specs.toolCapacity, 0)
        k == m.currentTool
    IN  (last.op # "new" /\ last.id = id /\ IsCNC(m.type)) =>
          /\ Len(m.tools) = Len(built) /\ k = 1 /\ k = s.currentTool
          /\ \A i \in 1..Len(m.tools) : i # k => m.tools[i] = built[i]
          /\ m.tools[k].currentLife <= s.tools[k].currentLife
          /\ m.tools[k].currentLife >= Max(0, s.tools[k].currentLife - 2000)
          /\ m.tools[k].currentLife # s.tools[k].currentLife =>
               (UpdatedRunning(id) /\ s.cyclePhase = "CUTTING")

\* an update call that ran the CUTTING phase wore the active tool, a command
\* having been given before
C28_Witness ==
  \E id \in Ids :
    /\ UpdatedRunning(id) /\ IsCNC(machines[id].type)
    /\ last.pre.cyclePhase = "CUTTING" /\ budget.cmds < MaxCmds
    /\ machines[id].tools[1].currentLife < last.pre.tools[1].currentLife
    /\ machines[id].tools[1].inUse /\ machines[id].tools[1].totalCuts = 1

C30_OffMeansStopped ==
  \A id \in Ids :
    ~machines[id].power =>
      (machines[id].execution = "STOPPED" /\ machines[id].cyclePhase = "IDLE")

\* C31 as stated: after every update call on a powered-on machine that had
\* no active alarm at its start, execution is RUNNING exactly when cyclePhase
\* is not IDLE and IDLE exactly when cyclePhase is IDLE, whatever the type.
C31_ExecutionFollowsPhase ==
  \A id \in Ids :
    LET m == machines[id] IN
    UpdatedRunning(id) =>
      /\ (m.execution = "RUNNING") <=> (m.cyclePhase # "IDLE")
      /\ (m.execution = "IDLE") <=> (m.cyclePhase = "IDLE")

\* C32: in every state alarm is non-null exactly when the alarm history is
\* non-empty and its newest entry has cleared = false, and then the newest
\* entry's message is alarm and its code is alarmCode.
C32_AlarmAgreesWithHistory ==
  \A id \in Ids :
    LET m == machines[id]
        h == m.alarmHistory
    IN  /\ (m.alarm # "null") <=> (Len(h) > 0 /\ ~Last(h).cleared)
        /\ m.alarm # "null" =>
             (Last(h).message = m.alarm /\ Last(h).code = m.alarmCode)

\* an alarm injected over an active one after a clear, the history being
\* full and its oldest entries dropped
C32_Witness ==
  \E id \in Ids :
    LET m == machines[id] IN
    /\ last.op = "injectAlarm" /\ last.id = id /\ last.pre.alarm # "null"
    /\ Len(m.alarmHistory) = 20 /\ m.alarmsSet > 20
    /\ \E i \in 1..19 : m.alarmHistory[i].cleared

\* C33 as stated: in every state every alarm-history entry other than the
\* newest has cleared = true: no alarm, injected or automatic, is set over
\* one that is still recorded as uncleared.
C33_OlderEntriesCleared ==
  \A id \in Ids :
    LET h == machines[id].alarmHistory IN
    \A i \in 1..Len(h) : i < Len(h) => h[i].cleared

\* C34: on a press brake tonnage never exceeds 0.8 * maxTonnage, whatever
\* the update calls and commands, so the OVER_TONNAGE condition
\* (tonnage > 0.9 * maxTonnage) is never met: no update call on a press
\* brake sets an alarm, and an alarm it holds comes from injectAlarm.
C34_TonnageBelowAlarm ==
  \A id \in Ids :
    LET m == machines[id] IN
    m.type = "PRESS_BRAKE" =>
      /\ m.tonnage <= m.maxTonnage * 800
      /\ ~(m.tonnage > m.maxTonnage * 900)
      /\ Updated(id) => m.alarmsSet = last.pre.alarmsSet
      /\ m.alarmsSet > 0 => injected[id].seq = m.alarmsSet

\* an update call that found the ram of a press brake at its stop, after a
\* command
C34_Witness ==
  \E id \in Ids :
    LET m == machines[id] IN
    /\ UpdatedRunning(id) /\ m.type = "PRESS_BRAKE"
    /\ last.pre.ramPosition = 100 /\ m.ramPosition = 100
    /\ m.tonnage = m.maxTonnage * 800 /\ budget.cmds < MaxCmds

\* C35 as stated: whenever a press brake's cyclePhase is IDLE after an update
\* call, its ram position and tonnage are 0, also after a bend that an
\* injected alarm or a power-off interrupted; every bend starts with the ram
\* at 0.
C35_IdlePressAtRest ==
  \A id \in Ids :
    LET m == machines[id] IN
    (Updated(id) /\ m.type = "PRESS_BRAKE") =>
      /\ m.cyclePhase = "IDLE" => (m.ramPosition = 0 /\ m.tonnage = 0)
      /\ (last.pre.cyclePhase = "IDLE" /\ m.cyclePhase = "RUNNING") =>
           last.pre.ramPosition = 0

\* the update call on the powered-on machine without alarm ran the
\* completion step of its cycle: _phaseFinish, or the end of the RUNNING
\* phase of a press brake (5.0 s) or a laser (8.0 s)
Completes(id) ==
  LET s == last.pre IN
  /\ UpdatedRunning(id)
  /\ IF IsCNC(s.type) THEN s.cyclePhase = "FINISH"
     ELSE /\ s.cyclePhase = "RUNNING"
          /\ s.timeInPhase + ElapsedDt >= (IF s.type = "PRESS_BRAKE" THEN 5 ELSE 8)

\* the operation on machine id abandoned a cycle in progress: a power-off, or
\* an update call that met an alarm or found the power off
Interrupts(id) ==
  /\ last.op # "new" /\ last.id = id /\ last.pre.cyclePhase # "IDLE"
  /\ \/ last.op = "setPower" /\ ~last.state
     \/ Updated(id) /\ ~UpdatedRunning(id)

\* C36: for every machine type partCount = totalCycles in every state; an
\* operation changes the counters only when it is the update call that runs
\* the completion step of a cycle, which adds 1 to each, so neither ever
\* decreases; the operation that interrupts a cycle (power-off, alarm) leaves
\* the counters as they were and the phase IDLE, so that the abandoned cycle
\* never reaches its completion step.
C36_CountersAgree ==
  \A id \in Ids :
    LET m == machines[id]
        s == last.pre
    IN  /\ m.partCount = m.totalCycles
        /\ (last.op # "new" /\ last.id = id) =>
             /\ m.partCount = s.partCount + (IF Completes(id) THEN 1 ELSE 0)
             /\ m.totalCycles = s.totalCycles + (IF Completes(id) THEN 1 ELSE 0)
             /\ m.partCount >= s.partCount /\ m.totalCycles >= s.totalCycles
             /\ Interrupts(id) =>
                  /\ m.cyclePhase = "IDLE" /\ ~Completes(id)
                  /\ m.partCount = s.partCount /\ m.totalCycles = s.totalCycles

\* a mill or lathe completes its first part, an alarm set in the middle of
\* an earlier cycle having sent it back to IDLE
C36_Witness ==
  \E id \in Ids :
    LET m == machines[id] IN
    /\ Completes(id) /\ IsCNC(m.type) /\ m.partCount = 1
    /\ \E i \in 1..Len(m.alarmHistory) : m.alarmHistory[i].cyclePhase # "IDLE"

\* the machines that the status record st counts under each of its four
\* headings add up to its total
Partitions(st) == st.running + st.idle + st.alarm + st.stopped = st.total

\* C37 as stated: at every moment the plant status counts partition the
\* fleet: each machine is counted in exactly one of running, idle, alarm and
\* stopped, and running + idle + alarm + stopped = total, after any ticks
\* and power, alarm-inject and alarm-clear commands.
C37_StatusPartitionsFleet ==
  /\ Partitions(PlantStatus(machines))
  /\ \A id \in Ids :
       LET one == PlantStatus(id :> machines[id])
       IN  one.running + one.idle + one.alarm + one.stopped = 1
  /\ last.op = "GET plant/status" => Partitions(last.body)

\* C38 as stated: clearAlarm() called when no alarm is active leaves the
\* machine as it was: execution, cyclePhase, alarm, alarmCode and every entry
\* of the alarm history keep their values, whether the machine is running a
\* cycle, idle or powered off.
C38_ClearWithoutAlarmIsNoOp ==
  \A id \in Ids :
    LET m == machines[id]
        s == last.pre
    IN  (last.op = "clearAlarm" /\ last.id = id /\ s.alarm = "null") =>
          /\ m.execution = s.execution /\ m.cyclePhase = s.cyclePhase
          /\ m.alarm = s.alarm /\ m.alarmCode = s.alarmCode
          /\ m.alarmHistory = s.alarmHistory
          /\ m = s

====
